---- MODULE Spec2Model ----
(***************************************************************************)
(* Cycle-accurate model of the CMSIS-DAP command core of orbtrace          *)
(* (src/orbtrace/nmigen/cmsis_dap.py).  One step of the model is one tick  *)
(* of the 'usb' clock domain.  The registers of the CMSIS_DAP object are   *)
(* the fields of the record 'dap'; every handler RESP_x of the source is   *)
(* an operator RESP_x(s, n, ...) where s is the register state of the      *)
(* current cycle (what the right-hand sides read) and n the next state     *)
(* being assembled (a later assignment overrides an earlier one, as in     *)
(* nmigen's m.d.usb += ...).                                               *)
(*                                                                         *)
(* Naming as in the source: streamOut is the INBOUND byte stream (the USB  *)
(* OUT endpoint, host -> core) and streamIn the OUTBOUND one (the USB IN   *)
(* endpoint, core -> host).  Blocks (rxBlock, txBlock) and 32 bit words    *)
(* are sequences of bytes, least significant byte first; byte i of the     *)
(* source (word_select(i,8)) is element i+1 of the sequence.               *)
(***************************************************************************)
EXTENDS Integers, Sequences, FiniteSets, TLC

\* ---------------------------------------------------------------- constants
DAP_CONNECT_DEFAULT    == 1
DAP_CAPABILITIES       == 1
DAP_TB_SIZE            == 500
DAP_MAX_PACKET_COUNT   == 1
DAP_V1_MAX_PACKET_SIZE == 64
DAP_V2_MAX_PACKET_SIZE == 500

DAP_Info               == 0
DAP_HostStatus         == 1
DAP_Connect            == 2
DAP_Disconnect         == 3
DAP_TransferConfigure  == 4
DAP_Transfer           == 5
DAP_TransferBlock      == 6
DAP_TransferAbort      == 7
DAP_WriteABORT         == 8
DAP_Delay              == 9
DAP_ResetTarget        == 10
DAP_SWJ_Pins           == 16
DAP_SWJ_Clock          == 17
DAP_SWJ_Sequence       == 18
DAP_SWD_Configure      == 19
DAP_JTAG_Sequence      == 20
DAP_JTAG_Configure     == 21
DAP_JTAG_IDCODE        == 22
DAP_SWO_Transport      == 23
DAP_SWO_Mode           == 24
DAP_SWO_Baudrate       == 25
DAP_SWO_Control        == 26
DAP_SWO_Status         == 27
DAP_SWO_Data           == 28
DAP_SWD_Sequence       == 29
DAP_SWO_ExtendedStatus == 30
DAP_ExecuteCommands    == 127
DAP_QueueCommands      == 126
DAP_Invalid            == 255

CMD_RESET              == 0
CMD_PINS_WRITE         == 1
CMD_TRANSACT           == 2
CMD_SET_SWD            == 3
CMD_SET_JTAG           == 4
CMD_SET_SWJ            == 5
CMD_SET_PWRDOWN        == 6
CMD_SET_CLK            == 7
CMD_SET_CFG            == 8
CMD_WAIT               == 9
CMD_CLR_ERR            == 10
CMD_SET_RST_TMR        == 11
CMD_SET_TFR_CFG        == 12

\* Sizes of the registers of CMSIS_DAP.__init__
RxBlockBytes           == 7
TxBlockBytes           == 14

\* Ack codes of the debug interface tested by the transfer handlers
ACK_OK                 == 1
ACK_WAIT               == 2

\* ------------------------------------------------------- bits, bytes, words
Bit(x, i) == (x \div (2^i)) % 2

SetBit(x, i, v) == x - Bit(x, i) * (2^i) + v * (2^i)

B2N(b) == IF b THEN 1 ELSE 0

ByteAnd(a, b) ==
    Bit(a,0)*Bit(b,0)       + 2*Bit(a,1)*Bit(b,1)   + 4*Bit(a,2)*Bit(b,2)
  + 8*Bit(a,3)*Bit(b,3)     + 16*Bit(a,4)*Bit(b,4)  + 32*Bit(a,5)*Bit(b,5)
  + 64*Bit(a,6)*Bit(b,6)    + 128*Bit(a,7)*Bit(b,7)

ZeroWord == <<0, 0, 0, 0>>

WordAnd(a, b) == [k \in 1..4 |-> ByteAnd(a[k], b[k])]

\* A value of up to 8 bits zero-extended to a 32 bit register
ByteWord(b) == <<b, 0, 0, 0>>

\* blk.word_select(i,8) read; an index past the block reads 0
GetByte(blk, i) == IF i + 1 \in DOMAIN blk THEN blk[i + 1] ELSE 0

\* blk[8*i : 8*(i+Len(bytes))].eq(bytes); bytes past the block are dropped
PutBytes(blk, i, bytes) ==
    [k \in DOMAIN blk |->
        IF k - 1 >= i /\ k - 1 < i + Len(bytes) THEN bytes[k - i] ELSE blk[k]]

\* blk.bit_select(p,1).eq(v) for a bit position p; a position past the block
\* assigns nothing
PutBit(blk, p, v) ==
    [k \in DOMAIN blk |->
        IF k - 1 = p \div 8 THEN SetBit(blk[k], p % 8, v) ELSE blk[k]]

\* blk.bit_select(8*i,16) read as a number
GetShort(blk, i) == GetByte(blk, i) + 256 * GetByte(blk, i + 1)

\* A 16 bit value cut to its low byte
ShortBytes_LowByte(v) == <<v % 256, 0>>

ShortBytes(v) == <<v % 256, (v \div 256) % 256>>

\* blk.bit_select(8*i,32) read as a word
GetWord(blk, i) ==
    <<GetByte(blk, i), GetByte(blk, i + 1), GetByte(blk, i + 2), GetByte(blk, i + 3)>>

Zeros(k) == [j \in 1..k |-> 0]

\* -------------------------------------------------------------------- state
VARIABLES
    dap,        \* the registers of CMSIS_DAP (usb domain), the FSM state included
    mem,        \* WideRam.mem, the response scratch store: address -> word
    streamOut,  \* what the inbound stream presents: valid, first, last, payload
    dbg,        \* the debug interface engine: its state and its outputs
    scn,        \* the environment of this run (which packets, which engine)
    obs         \* history of the command in progress, for the properties

vars == <<dap, mem, streamOut, dbg, scn, obs>>

\* streamOut.ready is ~busy (combinatorial)
streamOut_ready(s) == ~s.busy

\* dbg_done is done_cdc == 0b11 (combinatorial)
dbg_done(s) == s.done_cdc = 3

\* A write enable that follows the level of the newer sample of done
tfrram_we_Level(s) == s.done_cdc >= 2

\* tfrram.we is done_cdc == 0b10: the rising edge of the synchronised done
tfrram_we(s) == s.done_cdc = 2

\* ------------------------------------------------- handlers without a state
\* RESP_Invalid without the invalid code: the opcode byte stays in place
RESP_Invalid_KeepsOpcode(n) ==
    [n EXCEPT !.txLen = 1, !.busy = TRUE, !.fsm = "RESPOND"]

RESP_Invalid(n) ==
    [n EXCEPT !.txBlock = PutBytes(@, 0, <<DAP_Invalid>>),
              !.txLen = 1, !.busy = TRUE, !.fsm = "RESPOND"]

RESP_Info(s, n) ==
    LET id == GetByte(s.rxBlock, 1)
        n1 == [n EXCEPT !.fsm = "RESPOND"]
    IN  CASE id \in {1, 2, 3, 5, 6} ->
               [n1 EXCEPT !.txLen = 2, !.txBlock = PutBytes(@, 1, <<0>>)]
          [] id = 4 ->
               [n1 EXCEPT !.txLen = 7,
                          !.txBlock = PutBytes(@, 1, <<5, 49, 46, 48, 48, 0>>)]
          [] id = 240 ->
               [n1 EXCEPT !.txLen = 3,
                          !.txBlock = PutBytes(@, 1, <<1, DAP_CAPABILITIES>>)]
          [] id = 241 ->
               \* Cat(C(8,8), C(0x3B9ACA00,32)) into a 48 bit slice
               [n1 EXCEPT !.txLen = 6,
                          !.txBlock = PutBytes(@, 1, <<8, 0, 202, 154, 59, 0>>)]
          [] id = 253 ->
               [n1 EXCEPT !.txLen = 6,
                          !.txBlock = PutBytes(@, 1,
                              <<4>> \o ShortBytes(DAP_TB_SIZE) \o <<0, 0>>)]
          [] id = 254 ->
               [n1 EXCEPT !.txLen = 6,
                          !.txBlock = PutBytes(@, 1, <<1, DAP_MAX_PACKET_COUNT>>)]
          [] id = 255 ->
               [n1 EXCEPT !.txLen = 6,
                          !.txBlock = PutBytes(@, 1, <<2>> \o ShortBytes(
                              IF s.isV2 THEN DAP_V2_MAX_PACKET_SIZE
                                        ELSE DAP_V1_MAX_PACKET_SIZE))]
          [] OTHER -> RESP_Invalid(n1)

RESP_HostStatus(s, n) ==
    LET n1 == [n EXCEPT !.fsm = "RESPOND"]
    IN  CASE GetByte(s.rxBlock, 1) = 0 ->
               [n1 EXCEPT !.connected = (GetByte(s.rxBlock, 2) = 1)]
          [] GetByte(s.rxBlock, 1) = 1 ->
               [n1 EXCEPT !.running = (GetByte(s.rxBlock, 2) = 1)]
          [] OTHER -> RESP_Invalid(n1)

\* A Connect that takes every port but JTAG as SWD
RESP_Connect_Setup_AnyPort(s, n) ==
    IF GetByte(s.rxBlock, 1) = 2 THEN RESP_Invalid(n)
    ELSE [RESP_Invalid(n) EXCEPT
              !.txBlock = PutBytes(@, 0, <<GetByte(s.rxBlock, 0), 1>>),
              !.dbgif_command = CMD_SET_SWD,
              !.txLen = 2, !.dbgif_go = TRUE,
              !.fsm = "DAP_Wait_Connect_Done"]

\* A Connect that also raises the connected flag
RESP_Connect_Setup_SetsConnected(s, n) ==
    IF GetByte(s.rxBlock, 1) \in {0, 1}
    THEN [RESP_Invalid(n) EXCEPT
              !.txBlock = PutBytes(@, 0, <<GetByte(s.rxBlock, 0), 1>>),
              !.dbgif_command = CMD_SET_SWD,
              !.txLen = 2, !.dbgif_go = TRUE, !.connected = TRUE,
              !.fsm = "DAP_Wait_Connect_Done"]
    ELSE RESP_Invalid(n)

RESP_Connect_Setup(s, n) ==
    LET n1   == RESP_Invalid(n)
        port == GetByte(s.rxBlock, 1)
        n2   == IF Bit(DAP_CAPABILITIES, 0) = 1
                   /\ ((port = 0 /\ DAP_CONNECT_DEFAULT = 1) \/ port = 1)
                THEN [n1 EXCEPT !.txBlock = PutBytes(@, 0, <<GetByte(s.rxBlock, 0), 1>>),
                                !.dbgif_command = CMD_SET_SWD,
                                !.txLen = 2, !.dbgif_go = TRUE,
                                !.fsm = "DAP_Wait_Connect_Done"]
                ELSE n1
    IN  IF Bit(DAP_CAPABILITIES, 1) = 1
           /\ ((port = 0 /\ DAP_CONNECT_DEFAULT = 2) \/ port = 2)
        THEN [n2 EXCEPT !.txBlock = PutBytes(@, 0, <<GetByte(s.rxBlock, 0), 2>>),
                        !.dbgif_command = CMD_SET_JTAG,
                        !.txLen = 2, !.dbgif_go = TRUE,
                        !.fsm = "DAP_Wait_Connect_Done"]
        ELSE n2

RESP_Wait_Connect_Done(s, n) ==
    LET n1 == IF s.dbgif_go /\ ~dbg_done(s) THEN [n EXCEPT !.dbgif_go = FALSE] ELSE n
    IN  IF ~s.dbgif_go /\ dbg_done(s) THEN [n1 EXCEPT !.fsm = "RESPOND"] ELSE n1

RESP_Wait_Done(s, n, e) ==
    LET n1 == IF s.dbgif_go /\ ~dbg_done(s) THEN [n EXCEPT !.dbgif_go = FALSE] ELSE n
    IN  IF ~s.dbgif_go /\ dbg_done(s)
        THEN [n1 EXCEPT !.txBlock = PutBit(@, 8, e.perr), !.fsm = "RESPOND"]
        ELSE n1

\* A Disconnect that leaves the connected flag as it is
RESP_Disconnect_KeepsConnected(n) ==
    [n EXCEPT !.running = FALSE, !.fsm = "RESPOND"]

RESP_Disconnect(n) ==
    [n EXCEPT !.running = FALSE, !.connected = FALSE, !.fsm = "RESPOND"]

RESP_WriteABORT(s, n) ==
    [n EXCEPT !.dbgif_command = CMD_TRANSACT, !.dbgif_apndp = 0, !.dbgif_rnw = 0,
              !.dbgif_addr32 = 0, !.dbgif_dwrite = GetWord(s.rxBlock, 2),
              !.dbgif_go = TRUE, !.fsm = "DAP_Wait_Done"]

RESP_Delay(s, n) ==
    [n EXCEPT !.dbgif_dwrite = <<GetByte(s.rxBlock, 2), GetByte(s.rxBlock, 1), 0, 0>>,
              !.dbgif_command = CMD_WAIT, !.dbgif_go = TRUE, !.fsm = "DAP_Wait_Done"]

RESP_ResetTarget(n) ==
    \* Cat(C(0,8),C(0,7),C(1,1)): byte 1 is 0 and byte 2 is 0x80
    [n EXCEPT !.txBlock = PutBytes(@, 1, <<0, 128>>), !.txLen = 3,
              !.dbgif_command = CMD_RESET, !.dbgif_go = TRUE, !.fsm = "DAP_Wait_Done"]

RESP_SWJ_Pins_Setup(s, n) ==
    [n EXCEPT !.dbgif_dwrite = <<0, 0, GetByte(s.rxBlock, 1), GetByte(s.rxBlock, 2)>>,
              !.dbgif_countdown = GetWord(s.txBlock, 3),
              !.fsm = "DAP_SWJ_Pins_PROCESS"]

RESP_SWJ_Pins_Process(s, n, e) ==
    LET n1 == IF dbg_done(s)
              THEN [n EXCEPT !.txBlock = PutBytes(@, 1, <<e.dread[1]>>), !.txLen = 2]
              ELSE n
    IN  [n1 EXCEPT !.fsm = "RESPOND"]

RESP_SWJ_Clock(s, n) ==
    [n EXCEPT !.dbgif_dwrite = GetWord(s.rxBlock, 1), !.dbgif_command = CMD_SET_CLK,
              !.dbgif_go = TRUE, !.fsm = "DAP_Wait_Done"]

RESP_SWD_Configure(s, n) ==
    [n EXCEPT !.dbgif_dwrite = ByteWord(GetByte(s.rxBlock, 1)),
              !.dbgif_command = CMD_SET_CFG, !.dbgif_go = TRUE, !.fsm = "DAP_Wait_Done"]

RESP_SWO_Transport(s, n) ==
    LET n1 == IF GetByte(s.rxBlock, 1) > 2
              THEN [n EXCEPT !.txBlock = PutBytes(@, 1, <<255>>)] ELSE n
    IN  [n1 EXCEPT !.fsm = "RESPOND"]

RESP_SWO_Mode(s, n) ==
    LET n1 == IF GetByte(s.rxBlock, 1) > 2
              THEN [n EXCEPT !.txBlock = PutBytes(@, 1, <<255>>)] ELSE n
    IN  [n1 EXCEPT !.fsm = "RESPOND"]

RESP_SWO_Baudrate(s, n) ==
    \* txBlock.eq(rxBlock): the 56 bits of rxBlock zero-extended to 112
    [n EXCEPT !.txBlock = s.rxBlock \o Zeros(TxBlockBytes - RxBlockBytes),
              !.txLen = 5, !.fsm = "RESPOND"]

RESP_SWO_Control(s, n) ==
    LET n1 == IF GetByte(s.rxBlock, 1) > 1
              THEN [n EXCEPT !.txBlock = PutBytes(@, 1, <<255>>)] ELSE n
    IN  [n1 EXCEPT !.fsm = "RESPOND"]

RESP_SWO_Status(n) ==
    [n EXCEPT !.txBlock = PutBytes(@, 1, <<0, 68, 51, 34, 17>>),
              !.txLen = 6, !.fsm = "RESPOND"]

RESP_SWO_ExtendedStatus(s, n) ==
    IF ByteAnd(GetByte(s.rxBlock, 1), 248) # 0
    THEN RESP_Invalid(n)
    ELSE [n EXCEPT !.txBlock = PutBytes(@, 1,
                       <<0, 68, 51, 34, 17, 136, 119, 102, 85, 204, 187, 170, 153>>),
                   !.txLen = 14, !.fsm = "RESPOND"]

RESP_JTAG_Configure(s, n) ==
    [n EXCEPT !.irlength = GetByte(s.rxBlock, 2), !.ndev = GetByte(s.rxBlock, 1),
              !.fsm = "RESPOND"]

RESP_JTAG_IDCODE(n) ==
    [n EXCEPT !.txBlock = PutBytes(@, 2, <<17, 34, 51, 68>>),
              !.txLen = 6, !.fsm = "RESPOND"]

RESP_TransferConfigure(s, n) ==
    [n EXCEPT !.waitRetry = GetShort(s.rxBlock, 2),
              !.matchRetry = GetShort(s.rxBlock, 4),
              !.dbgif_dwrite = ByteWord(GetByte(s.rxBlock, 1)),
              !.dbgif_command = CMD_SET_TFR_CFG, !.dbgif_go = TRUE,
              !.fsm = "DAP_Wait_Done"]

\* A bit of a register of the given width; a position past the register reads 0
RegBit(x, width, i) == IF i < width THEN Bit(x, i) ELSE 0

\* ------------------------------------------------------------ SWJ_Sequence
\* The setup asking for one bit more than the count byte says
RESP_SWJ_Sequence_Setup_OneBitMore(s, n) ==
    [n EXCEPT !.transferCount = GetByte(s.rxBlock, 1) + 1,
              !.txb = 0, !.dbgif_dwrite = ZeroWord, !.dbgif_pinsin = 65296,
              !.bitcount = 0, !.dbgif_command = CMD_PINS_WRITE,
              !.fsm = "DAP_SWJ_Sequence_PROCESS"]

RESP_SWJ_Sequence_Setup(s, n) ==
    [n EXCEPT !.transferCount = IF GetByte(s.rxBlock, 1) # 0
                                THEN GetByte(s.rxBlock, 1) ELSE 256,
              !.txb = 0, !.dbgif_dwrite = ZeroWord, !.dbgif_pinsin = 65296,
              !.bitcount = 0, !.dbgif_command = CMD_PINS_WRITE,
              !.fsm = "DAP_SWJ_Sequence_PROCESS"]

RESP_SWJ_Sequence_Process(s, n, so) ==
    CASE s.txb = 0 ->
           IF streamOut_ready(s)
           THEN [n EXCEPT !.tfrData = ByteWord(so.payload), !.txb = 1, !.busy = TRUE]
           ELSE [n EXCEPT !.busy = FALSE]
      [] s.txb = 1 ->
           [n EXCEPT !.dbgif_pinsin = SetBit(SetBit(@, 0, 0), 1, Bit(s.tfrData[1], 0)),
                     !.tfrData = ByteWord((s.tfrData[1] \div 2) % 128),
                     !.dbgif_go = TRUE,
                     !.transferCount = (s.transferCount + 65535) % 65536,
                     !.bitcount = (s.bitcount + 1) % 8,
                     !.txb = 2]
      [] s.txb = 2 ->
           LET n1 == IF ~dbg_done(s) THEN [n EXCEPT !.dbgif_go = FALSE] ELSE n
           IN  IF ~s.dbgif_go /\ dbg_done(s)
               THEN [n1 EXCEPT !.dbgif_pinsin = SetBit(@, 0, 1),
                               !.dbgif_go = TRUE, !.txb = 3]
               ELSE n1
      [] s.txb = 3 ->
           LET n1 == IF ~dbg_done(s) THEN [n EXCEPT !.dbgif_go = FALSE] ELSE n
           IN  IF ~s.dbgif_go /\ dbg_done(s)
               THEN IF s.transferCount # 0
                    THEN [n1 EXCEPT !.txb = IF s.bitcount # 0 THEN 1 ELSE 0]
                    ELSE [n1 EXCEPT !.fsm = "DAP_Wait_Done"]
               ELSE n1
      [] OTHER -> n

\* ---------------------------------------------------------------- SWO_Data
RESP_SWO_Data_Setup(s, n) ==
    LET maxSWObytes == GetShort(s.rxBlock, 1)
    IN  [n EXCEPT !.txLen = IF maxSWObytes < 100 THEN maxSWObytes ELSE 100,
                  !.txb = 0, !.fsm = "DAP_SWO_Data_PROCESS"]

RESP_SWO_Data_Process(s, n, rdy) ==
    IF ~rdy THEN n
    ELSE
      LET n0 == [n EXCEPT !.streamIn_last = FALSE]
          n1 == CASE s.txb = 0 ->
                       [n0 EXCEPT !.streamIn_payload = DAP_SWO_Data, !.txb = 1]
                  [] s.txb = 1 ->
                       [n0 EXCEPT !.streamIn_payload = 0, !.txb = 2]
                  [] s.txb = 2 ->
                       [n0 EXCEPT !.streamIn_payload = s.txLen % 256, !.txb = 3]
                  [] s.txb = 3 ->
                       [n0 EXCEPT !.streamIn_payload = (s.txLen \div 256) % 256,
                                  !.txb = IF s.txLen # 0 THEN 4 ELSE 5,
                                  !.streamIn_last = (s.txLen = 0)]
                  [] s.txb = 4 ->
                       [n0 EXCEPT !.streamIn_payload = 42,
                                  !.txLen = (s.txLen + 65535) % 65536,
                                  !.streamIn_last = (s.txLen = 1),
                                  !.txb = IF s.txLen = 1 THEN 5 ELSE @]
                  [] s.txb = 5 ->
                       [n0 EXCEPT !.fsm = "IDLE"]
                  [] OTHER -> n0
      IN  IF s.txb # 5 THEN [n1 EXCEPT !.streamIn_valid = TRUE] ELSE n1

\* ---------------------------------------------------------------- Transfer
RESP_Transfer_Setup(s, n) ==
    LET n1 == [n EXCEPT !.dapIndex = GetByte(s.rxBlock, 1),
                        !.transferCount = GetByte(s.rxBlock, 2),
                        !.tfrram_adr = 0, !.busy = TRUE, !.txb = 0]
    IN  IF GetByte(s.rxBlock, 2) # 0
        THEN [n1 EXCEPT !.fsm = "DAP_Transfer_PROCESS"]
        ELSE [n1 EXCEPT !.txBlock = PutBytes(@, 2, <<1>>), !.busy = FALSE,
                        !.txLen = 3, !.fsm = "RESPOND"]

\* txb 0: take the transfer request byte from the stream
Transfer_GetRequest(s, n, so) ==
    IF ~streamOut_ready(s)
    THEN [n EXCEPT !.busy = FALSE]
    ELSE LET p  == so.payload
             n1 == [n EXCEPT !.tfrReq = p, !.retries = 0,
                             !.txBlock = PutBytes(@, 1,
                                            <<(GetByte(s.txBlock, 1) + 1) % 256>>)]
         IN  IF Bit(p, 1) = 0 \/ Bit(p, 4) = 1 \/ Bit(p, 5) = 1
             THEN [n1 EXCEPT !.txb = 1]
             ELSE [n1 EXCEPT !.txb = 5, !.busy = TRUE]

\* txb 1..4: collect the 32 bit transfer data
Transfer_GetData(s, n, so) ==
    IF streamOut_ready(s)
    THEN LET n1 == [n EXCEPT !.tfrData = PutBytes(@, s.txb - 1, <<so.payload>>),
                             !.txb = s.txb + 1]
         IN  IF Bit(s.tfrReq, 5) = 1 /\ s.txb = 5
             THEN [n1 EXCEPT !.mask = <<so.payload, s.tfrData[1], s.tfrData[2],
                                        s.tfrData[3]>>,
                             !.txb = 0]
             ELSE n1
    ELSE [n EXCEPT !.busy = FALSE]

\* txb 5: registers to the debug interface, go
Transfer_Issue(s, n) ==
    [n EXCEPT !.dbgif_command = CMD_TRANSACT,
              !.dbgif_apndp = Bit(s.tfrReq, 0),
              !.dbgif_rnw = Bit(s.tfrReq, 1),
              !.dbgif_addr32 = (s.tfrReq \div 4) % 4,
              !.dbgif_dwrite = s.tfrData,
              !.dbgif_go = TRUE,
              !.txb = s.txb + 1]

\* txb 6: wait for the command to be accepted
Transfer_WaitAccept(s, n) ==
    IF ~dbg_done(s) THEN [n EXCEPT !.dbgif_go = FALSE, !.txb = 7] ELSE n

\* txb 7, ack == WAIT
Transfer_OnWait(s, n) ==
    [n EXCEPT !.retries = (s.retries + 1) % 65536,
              !.txb = IF s.retries < s.waitRetry THEN 5 ELSE 8]

\* txb 7, value match request
Transfer_OnMatch(s, n, e) ==
    IF WordAnd(e.dread, s.mask) # s.tfrData /\ s.matchretries < s.matchRetry
    THEN [n EXCEPT !.txBlock = PutBit(@, 21, 1), !.txb = 8]
    ELSE [n EXCEPT !.txb = 5]

\* Transfer_OnData with a store address that stays where it is after a read
Transfer_OnData_NoAdvance(s, n, e) ==
    IF e.again
    THEN [n EXCEPT !.txb = 5]
    ELSE LET n2 == [n EXCEPT !.transferCount = (s.transferCount + 65535) % 65536]
         IN  IF e.ack = ACK_OK /\ e.perr = 0 /\ s.transferCount > 1
             THEN [n2 EXCEPT !.txb = 0]
             ELSE IF e.postedMode
                  THEN [n2 EXCEPT !.tfrReq = 14, !.retries = 0, !.txb = 5]
                  ELSE [n2 EXCEPT !.transferCount =
                                      (s.tfrram_adr + s.dbgif_rnw) % 65536,
                                  !.txb = 8]

\* Transfer_OnData counting an element down on 'again' as well
Transfer_OnData_AgainCounts(s, n, e) ==
    LET n1 == IF e.again \/ (~e.ignoreData /\ s.dbgif_rnw = 1)
              THEN [n EXCEPT !.tfrram_adr = (s.tfrram_adr + 1) % 4096]
              ELSE n
        n2 == [n1 EXCEPT !.transferCount = (s.transferCount + 65535) % 65536]
    IN  IF e.again
        THEN [n2 EXCEPT !.txb = 5]
        ELSE IF e.ack = ACK_OK /\ e.perr = 0 /\ s.transferCount > 1
             THEN [n2 EXCEPT !.txb = 0]
             ELSE IF e.postedMode
                  THEN [n2 EXCEPT !.tfrReq = 14, !.retries = 0, !.txb = 5]
                  ELSE [n2 EXCEPT !.transferCount =
                                      (s.tfrram_adr + s.dbgif_rnw) % 65536,
                                  !.txb = 8]

\* txb 7, any other completion
Transfer_OnData(s, n, e) ==
    LET n1 == IF e.again \/ (~e.ignoreData /\ s.dbgif_rnw = 1)
              THEN [n EXCEPT !.tfrram_adr = (s.tfrram_adr + 1) % 4096]
              ELSE n
    IN  IF e.again
        THEN [n1 EXCEPT !.txb = 5]
        ELSE LET n2 == [n1 EXCEPT !.transferCount = (s.transferCount + 65535) % 65536]
             IN  IF e.ack = ACK_OK /\ e.perr = 0 /\ s.transferCount > 1
                 THEN [n2 EXCEPT !.txb = 0]
                 ELSE IF e.postedMode
                      THEN [n2 EXCEPT !.tfrReq = 14, !.retries = 0, !.txb = 5]
                      ELSE [n2 EXCEPT !.transferCount =
                                          (s.tfrram_adr + s.dbgif_rnw) % 65536,
                                      !.txb = 8]

\* txb 7: wait for the command to complete, then interpret the result
Transfer_Complete(s, n, e) ==
    IF ~dbg_done(s) THEN n
    ELSE LET n1 == [n EXCEPT !.txBlock = PutBytes(@, 2, <<e.ack + 8 * e.perr>>)]
         IN  IF e.ack = ACK_WAIT THEN Transfer_OnWait(s, n1)
             ELSE IF Bit(s.tfrReq, 4) = 1 THEN Transfer_OnMatch(s, n1, e)
             ELSE Transfer_OnData(s, n1, e)

\* txb 8..10: the three header bytes of the response
Transfer_SendHeader(s, n, rdy) ==
    LET n1 == [n EXCEPT !.tfrram_adr = 0]
    IN  IF ~rdy THEN n1
        ELSE LET n2 == [n1 EXCEPT !.streamIn_payload = GetByte(s.txBlock, s.txb - 8),
                                  !.streamIn_valid = TRUE,
                                  !.txb = s.txb + 1]
             IN  IF s.txb = 10 /\ s.transferCount = 0
                 THEN [n2 EXCEPT !.streamIn_last = TRUE, !.busy = FALSE,
                                 !.fsm = "IDLE"]
                 ELSE n2

\* txb 11: one cycle for the synchronous read port of the store
Transfer_FetchWord(s, n) ==
    [n EXCEPT !.transferCount = (s.transferCount + 65535) % 65536,
              !.txb = s.txb + 1]

\* txb 12..15: the four bytes of a stored word
Transfer_SendWord(s, n, rdy) ==
    IF ~rdy THEN n
    ELSE LET n1 == [n EXCEPT !.streamIn_payload = s.tfrram_dat_r[s.txb - 11],
                             !.streamIn_valid = TRUE,
                             !.txb = (s.txb + 1) % 16]
         IN  IF s.txb # 15 THEN n1
             ELSE IF s.transferCount = 0
                  THEN [n1 EXCEPT !.streamIn_last = TRUE, !.busy = FALSE,
                                  !.fsm = "IDLE"]
                  ELSE [n1 EXCEPT !.tfrram_adr = (s.tfrram_adr + 1) % 4096,
                                  !.txb = 11]

RESP_Transfer_Process(s, n, so, rdy, e) ==
    LET n0 == [n EXCEPT !.busy = TRUE, !.streamIn_last = FALSE]
    IN  CASE s.txb = 0         -> Transfer_GetRequest(s, n0, so)
          [] s.txb \in 1..4    -> Transfer_GetData(s, n0, so)
          [] s.txb = 5         -> Transfer_Issue(s, n0)
          [] s.txb = 6         -> Transfer_WaitAccept(s, n0)
          [] s.txb = 7         -> Transfer_Complete(s, n0, e)
          [] s.txb \in 8..10   -> Transfer_SendHeader(s, n0, rdy)
          [] s.txb = 11        -> Transfer_FetchWord(s, n0)
          [] s.txb \in 12..15  -> Transfer_SendWord(s, n0, rdy)

\* ----------------------------------------------------------- TransferBlock
RESP_TransferBlock_Setup(s, n) ==
    LET req == GetByte(s.rxBlock, 4)
        n1  == [n EXCEPT !.tfrram_adr = 0,
                         !.dbgif_command = CMD_TRANSACT,
                         !.dapIndex = GetByte(s.rxBlock, 1),
                         !.transferCount = GetShort(s.rxBlock, 2),
                         !.dbgif_apndp = Bit(req, 0),
                         !.dbgif_rnw = Bit(req, 1),
                         !.dbgif_addr32 = (req \div 4) % 4,
                         !.txBlock = PutBytes(@, 1, <<0, 0>>),
                         \* Mux(tfrReq.bit_select(33,1),4,0) on the 8 bit tfrReq
                         !.txb = IF RegBit(s.tfrReq, 8, 33) = 1 THEN 4 ELSE 0,
                         !.retries = 0]
    IN  IF GetShort(s.rxBlock, 2) # 0
        THEN [n1 EXCEPT !.fsm = "DAP_TransferBlock_PROCESS"]
        ELSE [n1 EXCEPT !.txBlock = PutBytes(@, 1, <<1, 0, 0>>), !.txLen = 4,
                        !.fsm = "RESPOND"]

\* txb 0..3: collect the 32 bit transfer data
TransferBlock_GetData(s, n, so) ==
    IF streamOut_ready(s)
    THEN [n EXCEPT !.tfrData = PutBytes(@, s.txb, <<so.payload>>), !.txb = s.txb + 1]
    ELSE [n EXCEPT !.busy = FALSE]

\* txb 4: count the element, go
TransferBlock_Issue(s, n) ==
    [n EXCEPT !.txBlock = PutBytes(@, 1, ShortBytes(GetShort(s.txBlock, 1) + 1)),
              !.dbgif_dwrite = s.tfrData,
              !.dbgif_go = TRUE,
              !.retries = (s.retries + 1) % 65536,
              !.txb = 5]

\* txb 5: wait for the command to be accepted
TransferBlock_WaitAccept(s, n) ==
    IF ~dbg_done(s) THEN [n EXCEPT !.dbgif_go = FALSE, !.txb = 6] ELSE n

\* txb 6: wait for the command to complete, then interpret the result
TransferBlock_Complete(s, n, e) ==
    IF ~dbg_done(s) THEN n
    ELSE
      LET n1 == [n EXCEPT !.txBlock = PutBytes(@, 3, <<e.ack + 8 * e.perr>>)]
      IN  IF e.ack = ACK_WAIT
          THEN [n1 EXCEPT !.txb = IF s.retries < s.waitRetry THEN 4 ELSE 7]
          ELSE
            LET n2 == IF ~e.ignoreData /\ s.dbgif_rnw = 1
                      THEN [n1 EXCEPT !.tfrram_adr = (s.tfrram_adr + 1) % 4096]
                      ELSE n1
            IN  IF e.again
                THEN [n2 EXCEPT !.retries = 0, !.dbgif_go = TRUE, !.txb = 5]
                ELSE
                  LET n3 == [n2 EXCEPT !.transferCount =
                                           (s.transferCount + 65535) % 65536]
                  IN  IF e.ack = ACK_OK /\ e.perr = 0 /\ s.transferCount > 1
                      THEN [n3 EXCEPT !.txb = IF s.dbgif_rnw = 1 THEN 4 ELSE 0]
                      ELSE IF e.postedMode
                           THEN [n3 EXCEPT
                                   !.txBlock = PutBytes(@, 1, ShortBytes(
                                       (GetShort(s.txBlock, 1) + 65535) % 65536)),
                                   !.dbgif_rnw = 1, !.retries = 0,
                                   !.dbgif_apndp = 0, !.dbgif_addr32 = 3,
                                   !.txb = 4]
                           ELSE [n3 EXCEPT
                                   !.transferCount =
                                       (s.tfrram_adr + s.dbgif_rnw) % 65536,
                                   !.tfrram_adr = 0, !.txb = 7]

\* txb 7..10: the four header bytes of the response
TransferBlock_SendHeader(s, n, rdy) ==
    LET n1 == IF rdy
              THEN [n EXCEPT !.streamIn_payload = GetByte(s.txBlock, s.txb - 7),
                             !.streamIn_valid = TRUE,
                             !.txb = s.txb + 1]
              ELSE n
    IN  IF s.txb = 10 /\ s.dbgif_rnw = 0
        THEN [n1 EXCEPT !.streamIn_last = TRUE, !.fsm = "IDLE"]
        ELSE n1

\* txb 11: one cycle for the synchronous read port of the store
TransferBlock_FetchWord(s, n) ==
    [n EXCEPT !.transferCount = (s.transferCount + 65535) % 65536, !.txb = 12]

\* txb 12..15: the four bytes of a stored word
TransferBlock_SendWord(s, n, rdy) ==
    IF ~rdy THEN n
    ELSE LET n1 == [n EXCEPT !.streamIn_payload = s.tfrram_dat_r[s.txb - 11],
                             !.streamIn_valid = TRUE,
                             !.txb = (s.txb + 1) % 16]
         IN  IF s.txb # 15 THEN n1
             ELSE IF s.transferCount = 0
                  THEN [n1 EXCEPT !.streamIn_last = TRUE, !.fsm = "IDLE"]
                  ELSE [n1 EXCEPT !.txb = 11,
                                  !.tfrram_adr = (s.tfrram_adr + 1) % 4096]

RESP_TransferBlock_Process(s, n, so, rdy, e) ==
    LET n0 == [n EXCEPT !.busy = TRUE, !.streamIn_last = FALSE]
    IN  CASE s.txb \in 0..3    -> TransferBlock_GetData(s, n0, so)
          [] s.txb = 4         -> TransferBlock_Issue(s, n0)
          [] s.txb = 5         -> TransferBlock_WaitAccept(s, n0)
          [] s.txb = 6         -> TransferBlock_Complete(s, n0, e)
          [] s.txb \in 7..10   -> TransferBlock_SendHeader(s, n0, rdy)
          [] s.txb = 11        -> TransferBlock_FetchWord(s, n0)
          [] s.txb \in 12..15  -> TransferBlock_SendWord(s, n0, rdy)

\* ----------------------------------------------------------- JTAG_Sequence
\* The setup taking the sequence count from byte 0 of rxBlock, the opcode
RESP_JTAG_Sequence_Setup_CountFromOpcode(s, n) ==
    [n EXCEPT !.seqCount = GetByte(s.rxBlock, 0),
              !.tdoCount = 16,
              !.txBlock = PutBytes(@, 2, Zeros(TxBlockBytes - 2)),
              !.txb = 0,
              !.fsm = "DAP_JTAG_Sequence_PROCESS"]

RESP_JTAG_Sequence_Setup(s, n) ==
    [n EXCEPT !.seqCount = GetByte(s.rxBlock, 1),
              !.tdoCount = 16,
              !.txBlock = PutBytes(@, 2, Zeros(TxBlockBytes - 2)),
              !.txb = 0,
              !.fsm = "DAP_JTAG_Sequence_PROCESS"]

\* txb 0 taking only five bits of the info byte as the cycle field
JTAG_GetInfo_FiveBits(s, n, so) ==
    LET n1 == [n EXCEPT !.busy = FALSE]
        n2 == IF streamOut_ready(s)
              THEN [n1 EXCEPT !.tckCycles = so.payload % 32,
                              !.tmsValue = Bit(so.payload, 6),
                              !.tdoCapture = Bit(so.payload, 7),
                              !.txb = 1]
              ELSE n1
    IN  [n2 EXCEPT !.tdoCount = (((s.tdoCount + 7) \div 8) % 16) * 8]

\* txb 0: the info byte of the next sequence
JTAG_GetInfo(s, n, so) ==
    LET n1 == [n EXCEPT !.busy = FALSE]
        n2 == IF streamOut_ready(s)
              THEN [n1 EXCEPT !.tckCycles = so.payload % 64,
                              !.tmsValue = Bit(so.payload, 6),
                              !.tdoCapture = Bit(so.payload, 7),
                              !.txb = 1]
              ELSE n1
    IN  \* (tdoCount+7) & 0x78: bits 3..6 of the sum
        [n2 EXCEPT !.tdoCount = (((s.tdoCount + 7) \div 8) % 16) * 8]

\* txb 1: the next TDI byte
JTAG_GetTDI(s, n, so) ==
    LET n1 == [n EXCEPT !.busy = FALSE]
    IN  IF streamOut_ready(s)
        THEN [n1 EXCEPT !.tdiData = so.payload, !.txb = 2, !.busy = TRUE,
                        !.bytebits = IF s.tckCycles = 0 \/ s.tckCycles > 7
                                     THEN 8 ELSE s.tckCycles]
        ELSE n1

\* txb 2: clock one bit
JTAG_ClockBit(s, n) ==
    LET n1 == [n EXCEPT !.tckCycles = (s.tckCycles + 63) % 64,
                        !.bytebits = (s.bytebits + 15) % 16]
        n2 == IF s.bytebits = 1 THEN [n1 EXCEPT !.txb = 1] ELSE n1
        n3 == IF s.tdoCapture = 1
              THEN [n2 EXCEPT !.tdoCount = (s.tdoCount + 1) % 128,
                              !.txBlock = PutBit(@, s.tdoCount, B2N(s.bytebits = 1))]
              ELSE n2
        n4 == [n3 EXCEPT !.tdiData = s.tdiData \div 2]
    IN  IF s.tckCycles = 1
        THEN [n4 EXCEPT !.seqCount = (s.seqCount + 255) % 256, !.txb = 0]
        ELSE n4

RESP_JTAG_Sequence_PROCESS(s, n, so) ==
    LET n0 == [n EXCEPT !.busy = TRUE]
    IN  IF s.seqCount = 0
        THEN [n0 EXCEPT !.txLen = (s.tdoCount + 7) \div 8, !.busy = FALSE,
                        !.fsm = "RESPOND"]
        ELSE CASE s.txb = 0 -> JTAG_GetInfo(s, n0, so)
               [] s.txb = 1 -> JTAG_GetTDI(s, n0, so)
               [] s.txb = 2 -> JTAG_ClockBit(s, n0)
               [] OTHER     -> n0

\* ------------------------------------------------- the decoder FSM: IDLE
\* The frame length the decoder declares for an opcode; 0: no RxParams frame
FrameLen(op) ==
    CASE op \in {DAP_Disconnect, DAP_ResetTarget, DAP_SWO_Status, DAP_TransferAbort} -> 1
      [] op \in {DAP_Info, DAP_Connect, DAP_SWD_Configure, DAP_SWO_Transport,
                 DAP_SWJ_Sequence, DAP_SWO_Mode, DAP_SWO_Control,
                 DAP_SWO_ExtendedStatus, DAP_JTAG_IDCODE, DAP_JTAG_Sequence} -> 2
      [] op \in {DAP_HostStatus, DAP_SWO_Data, DAP_Delay, DAP_JTAG_Configure,
                 DAP_Transfer} -> 3
      [] op \in {DAP_SWO_Baudrate, DAP_SWJ_Clock, DAP_TransferBlock} -> 5
      [] op \in {DAP_WriteABORT, DAP_TransferConfigure} -> 6
      [] op = DAP_SWJ_Pins -> 7
      [] OTHER -> 0

\* The three opcodes the decoder names but sends to a state that answers Invalid
StubState(op) ==
    CASE op = DAP_SWD_Sequence    -> "DAP_SWD_Sequence_GetCount"
      [] op = DAP_ExecuteCommands -> "DAP_ExecuteCommands_GetNum"
      [] op = DAP_QueueCommands   -> "DAP_QueueCommands_GetNum"
      [] OTHER                    -> "ProtocolError"

\* with m.Switch(self.streamOut.payload) of IDLE
IDLE_Switch(n, so) ==
    LET op == so.payload
    IN  IF FrameLen(op) = 1
        THEN [n EXCEPT !.rxLen = 1, !.fsm = "RxParams"]
        ELSE IF FrameLen(op) > 1
        THEN [n EXCEPT !.rxLen = FrameLen(op),
                       !.fsm = IF ~so.last THEN "RxParams" ELSE @]
        ELSE IF op \in {DAP_SWD_Sequence, DAP_ExecuteCommands, DAP_QueueCommands}
        THEN [n EXCEPT !.fsm = IF ~so.last THEN StubState(op) ELSE @]
        ELSE RESP_Invalid(n)

IDLE(s, n, so) ==
    LET n0 == [n EXCEPT !.txedLen = 0, !.busy = FALSE]
    IN  IF so.valid /\ so.first
        THEN IDLE_Switch(
                [n0 EXCEPT !.fsm = "ProtocolError",
                           !.rxedLen = 1,
                           !.rxBlock = PutBytes(@, 0, <<so.payload>>),
                           !.txBlock = PutBytes(@, 0, <<so.payload, 0>>),
                           !.txLen = 2],
                so)
        ELSE n0

\* ---------------------------------------------- the decoder FSM: RESPOND
\* RESPOND marking the first byte of the response instead of the final one
RESPOND_LastOnFirst(s, n, rdy) ==
    IF s.txedLen < s.txLen
    THEN IF rdy
         THEN [n EXCEPT !.streamIn_payload = GetByte(s.txBlock, s.txedLen),
                        !.txedLen = (s.txedLen + 1) % 65536,
                        !.streamIn_last = (s.txedLen = 0),
                        !.streamIn_valid = TRUE]
         ELSE n
    ELSE [n EXCEPT !.streamIn_valid = FALSE, !.streamIn_last = FALSE,
                   !.rxedLen = 0, !.busy = FALSE, !.fsm = "IDLE"]

RESPOND(s, n, rdy) ==
    IF s.txedLen < s.txLen
    THEN IF rdy
         THEN [n EXCEPT !.streamIn_payload = GetByte(s.txBlock, s.txedLen),
                        !.txedLen = (s.txedLen + 1) % 65536,
                        !.streamIn_last = (s.txedLen + 1 = s.txLen),
                        !.streamIn_valid = TRUE]
         ELSE n
    ELSE [n EXCEPT !.streamIn_valid = FALSE, !.streamIn_last = FALSE,
                   !.rxedLen = 0, !.busy = FALSE, !.fsm = "IDLE"]

\* --------------------------------------------- the decoder FSM: RxParams
\* with m.Switch(self.rxBlock.word_select(0,8)): the action dispatcher
Dispatch(s, n) ==
    LET op == GetByte(s.rxBlock, 0)
    IN  CASE op = DAP_Info               -> RESP_Info(s, n)
          [] op = DAP_HostStatus         -> RESP_HostStatus(s, n)
          [] op = DAP_Connect            -> RESP_Connect_Setup(s, n)
          [] op = DAP_Disconnect         -> RESP_Disconnect(n)
          [] op = DAP_WriteABORT         -> RESP_WriteABORT(s, n)
          [] op = DAP_Delay              -> RESP_Delay(s, n)
          [] op = DAP_ResetTarget        -> RESP_ResetTarget(n)
          [] op = DAP_SWJ_Pins           -> RESP_SWJ_Pins_Setup(s, n)
          [] op = DAP_SWJ_Clock          -> RESP_SWJ_Clock(s, n)
          [] op = DAP_SWJ_Sequence       -> RESP_SWJ_Sequence_Setup(s, n)
          [] op = DAP_SWD_Configure      -> RESP_SWD_Configure(s, n)
          [] op = DAP_SWO_Transport      -> RESP_SWO_Transport(s, n)
          [] op = DAP_SWO_Mode           -> RESP_SWO_Mode(s, n)
          [] op = DAP_SWO_Baudrate       -> RESP_SWO_Baudrate(s, n)
          [] op = DAP_SWO_Control        -> RESP_SWO_Control(s, n)
          [] op = DAP_SWO_Status         -> RESP_SWO_Status(n)
          [] op = DAP_SWO_ExtendedStatus -> RESP_SWO_ExtendedStatus(s, n)
          [] op = DAP_SWO_Data           -> RESP_SWO_Data_Setup(s, n)
          [] op = DAP_JTAG_Sequence      -> RESP_JTAG_Sequence_Setup(s, n)
          [] op = DAP_JTAG_Configure     -> RESP_JTAG_Configure(s, n)
          [] op = DAP_JTAG_IDCODE        -> RESP_JTAG_IDCODE(n)
          [] op = DAP_TransferConfigure  -> RESP_TransferConfigure(s, n)
          [] op = DAP_Transfer           -> RESP_Transfer_Setup(s, n)
          [] op = DAP_TransferBlock      -> RESP_TransferBlock_Setup(s, n)
          [] OTHER                       -> RESP_Invalid(n)

\* RxParams_Grab without the check for a foreshortened packet
RxParams_Grab_NoLastCheck(s, n, so) ==
    LET n1 == [n EXCEPT !.rxBlock = PutBytes(@, s.rxedLen, <<so.payload>>),
                        !.rxedLen = (s.rxedLen + 1) % 8]
    IN  IF s.rxedLen + 1 = s.rxLen THEN [n1 EXCEPT !.busy = TRUE] ELSE n1

\* Grab next byte in this packet
RxParams_Grab(s, n, so) ==
    LET n1 == [n EXCEPT !.rxBlock = PutBytes(@, s.rxedLen, <<so.payload>>),
                        !.rxedLen = (s.rxedLen + 1) % 8]
        n2 == IF s.rxedLen + 1 = s.rxLen THEN [n1 EXCEPT !.busy = TRUE] ELSE n1
    IN  IF so.last /\ s.rxedLen + 1 # s.rxLen THEN RESP_Invalid(n2) ELSE n2

\* A dispatcher that does not wait for the declared length
RxParams_DispatchEarly(s, n, so) ==
    IF s.rxedLen = s.rxLen \/ s.rxedLen >= 2 THEN Dispatch(s, n)
    ELSE IF so.valid THEN RxParams_Grab(s, n, so)
    ELSE n

RxParams(s, n, so) ==
    IF s.rxedLen = s.rxLen THEN Dispatch(s, n)
    ELSE IF so.valid THEN RxParams_Grab(s, n, so)
    ELSE n

\* ------------------------------------------------------------ reset state
\* The reset values of the registers: nmigen resets a Signal to 0 and the FSM
\* to its first state
DapReset ==
    [ fsm |-> "IDLE", isV2 |-> FALSE,
      running |-> FALSE, connected |-> FALSE,
      rxBlock |-> Zeros(RxBlockBytes), rxLen |-> 0, rxedLen |-> 0,
      txBlock |-> Zeros(TxBlockBytes), txLen |-> 0, txedLen |-> 0,
      busy |-> FALSE, txb |-> 0, bitcount |-> 0,
      tmsValue |-> 0, tdoCapture |-> 0, tdiData |-> 0, tdoCount |-> 0,
      seqCount |-> 0, tckCycles |-> 0, bytebits |-> 0,
      dapIndex |-> 0, transferCount |-> 0, mask |-> ZeroWord,
      retries |-> 0, matchretries |-> 0, tfrReq |-> 0, tfrData |-> ZeroWord,
      ndev |-> 0, irlength |-> 0, waitRetry |-> 0, matchRetry |-> 0,
      done_cdc |-> 0,
      streamIn_payload |-> 0, streamIn_valid |-> FALSE, streamIn_last |-> FALSE,
      dbgif_command |-> 0, dbgif_go |-> FALSE, dbgif_dwrite |-> ZeroWord,
      dbgif_apndp |-> 0, dbgif_rnw |-> 0, dbgif_addr32 |-> 0,
      dbgif_pinsin |-> 0, dbgif_countdown |-> ZeroWord,
      tfrram_adr |-> 0, tfrram_dat_r |-> ZeroWord ]

\* Memory(width=32, depth=DAP_V2_MAX_PACKET_SIZE, init=[0xdeadbeef]); an
\* address that was never written reads its initial value 0
MemInit == (0 :> <<239, 190, 173, 222>>)

\* The ports of the store take the low bits of the 12 bit adr register; a
\* location past the depth holds nothing
MemAddr(a) == a % 512

MemRead(m, a) == IF MemAddr(a) \in DOMAIN m THEN m[MemAddr(a)] ELSE ZeroWord

MemWrite(m, a, w) ==
    IF MemAddr(a) < DAP_V2_MAX_PACKET_SIZE
    THEN [k \in (DOMAIN m) \cup {MemAddr(a)} |-> IF k = MemAddr(a) THEN w ELSE m[k]]
    ELSE m

\* tfrram.dat_w: driven with dbgif.dread in the two transfer states, else 0
tfrram_dat_w(s, e) ==
    IF s.fsm \in {"DAP_Transfer_PROCESS", "DAP_TransferBlock_PROCESS"}
    THEN e.dread ELSE ZeroWord

\* What every tick does whatever the FSM state: the default of streamIn.valid,
\* the two-stage synchroniser of done, the synchronous transparent read port
EveryTick(s, m, e) ==
    [s EXCEPT !.streamIn_valid = FALSE,
              !.done_cdc = (s.done_cdc \div 2) + 2 * B2N(e.done),
              !.tfrram_dat_r = IF tfrram_we(s) THEN tfrram_dat_w(s, e)
                               ELSE MemRead(m, s.tfrram_adr)]

\* --------------------------------------------------- the debug interface
\* The engine behind dbgif, from the contract of the module comment: it
\* accepts a command when it sees go, drops done, and raises done again when
\* the command has finished and go has been released.  Its results become
\* visible together with done.
EngineReset ==
    [ st |-> "idle", done |-> TRUE, ack |-> 0, perr |-> 0, dread |-> ZeroWord,
      again |-> FALSE, postedMode |-> FALSE, ignoreData |-> FALSE ]

EngineResults(c) ==
    { [ st |-> "idle", done |-> TRUE, ack |-> a, perr |-> p, dread |-> d,
        again |-> f[1], postedMode |-> f[2], ignoreData |-> f[3] ] :
        a \in c.acks, p \in c.perrs, d \in c.dreads, f \in c.flags }

EngineNext(e, go, c) ==
    IF e.st = "idle" /\ go
    THEN {[e EXCEPT !.st = "busy", !.done = FALSE]} \cup (IF c.latency THEN {e} ELSE {})
    ELSE IF e.st = "busy" /\ ~go
    THEN EngineResults(c) \cup (IF c.latency THEN {e} ELSE {})
    ELSE {e}

\* An engine that keeps the posted-read indicators: an AP read answered OK
\* leaves the engine in posted mode, and the first one of a row returns no
\* data; any other access answered OK ends posted mode; an access that is
\* not answered OK leaves the mode as it was
PostedFlags(r, e, s) ==
    IF e.st = "busy" /\ r.st = "idle"
    THEN LET apRead == s.dbgif_apndp = 1 /\ s.dbgif_rnw = 1
         IN  IF r.ack = ACK_OK
             THEN [r EXCEPT !.postedMode = apRead,
                            !.ignoreData = apRead /\ ~e.postedMode]
             ELSE [r EXCEPT !.postedMode = e.postedMode, !.ignoreData = FALSE]
    ELSE r

\* The posted environment answers every DP read with OK
PostedAnswers(r, e, s) ==
    (e.st = "busy" /\ r.st = "idle" /\ s.dbgif_apndp = 0 /\ s.dbgif_rnw = 1)
        => r.ack = ACK_OK

\* 'again' asks for the second phase of an access: the engine does not
\* signal it for two completions in a row
TwoPhase(r, e) ==
    (e.st = "busy" /\ r.st = "idle" /\ e.again) => ~r.again

\* The engine in one clock cycle, seeing the registers s of the core
EngineStep(e, s, c) ==
    LET next == {x \in EngineNext(e, s.dbgif_go, c) : TwoPhase(x, e)}
    IN  IF c.posted
        THEN {PostedFlags(r, e, s) : r \in {x \in next : PostedAnswers(x, e, s)}}
        ELSE next

\* ----------------------------------------------------- the inbound stream
\* The source of streamOut (the USB OUT endpoint): it presents the bytes of
\* one packet after the other, first on the first byte and last on the last,
\* and holds a byte until it is taken (valid and ready in the same cycle).
\* While it presents nothing, payload is whatever the endpoint drives.
HostReset ==
    [ valid |-> FALSE, first |-> FALSE, last |-> FALSE, payload |-> 0,
      open |-> FALSE, op |-> 0, pos |-> 0, npk |-> 0 ]

HostIdle(h, c) ==
    { [h EXCEPT !.valid = FALSE, !.first = FALSE, !.last = FALSE, !.payload = b] :
        b \in c.idle }

\* The values the host may put at position p (2, 3, ...) of a packet whose
\* first byte is op: a parameter of the command, or a byte of its data phase
HostBytes(c, op, p) ==
    IF op \in DOMAIN c.params /\ p - 1 <= Len(c.params[op])
    THEN c.params[op][p - 1]
    ELSE c.stream

HostContinue(h, c) ==
    { [h EXCEPT !.valid = TRUE, !.first = FALSE, !.last = l, !.payload = b,
                !.pos = h.pos + 1] :
        b \in HostBytes(c, h.op, h.pos + 1),
        l \in (IF h.pos + 1 >= c.maxLen THEN {TRUE} ELSE BOOLEAN) }

HostStart(h, c) ==
    { [h EXCEPT !.valid = TRUE, !.first = TRUE, !.last = l, !.payload = b,
                !.op = b, !.pos = 1, !.npk = h.npk + 1] :
        b \in c.opcodes, l \in BOOLEAN }

HostNext(h, s, c) ==
    IF h.valid /\ ~streamOut_ready(s)
    THEN {h}
    ELSE LET h1   == IF h.valid THEN [h EXCEPT !.open = ~h.last] ELSE h
             more == IF h1.open
                     THEN HostContinue(h1, c)
                     ELSE IF h1.npk < c.maxPackets
                             /\ (c.pipelined \/ (s.fsm = "IDLE" /\ ~s.busy))
                          THEN HostStart(h1, c)
                          ELSE {}
         IN  IF c.gaps \/ more = {} THEN more \cup HostIdle(h1, c) ELSE more

\* ------------------------------------------------------------ observation
\* What happened since the decoder last took a first-of-packet byte in IDLE
\* The observation counts the commands given to the engine up to MaxGoes
MaxGoes == 4

\* and logs up to MaxLog requests and read results
MaxLog == 3

ObsReset ==
    [ op |-> -1, nrx |-> 0, lastAt |-> 0, dispatched |-> FALSE,
      resp |-> <<>>, goes |-> 0, hs |-> "none", early |-> FALSE,
      reqs |-> <<>>, rd |-> <<>>, starved |-> FALSE, blind |-> FALSE,
      pending |-> FALSE, twice |-> FALSE, rego |-> FALSE, held |-> FALSE,
      pulls |-> 0, lost |-> FALSE, fresh |-> TRUE, stale |-> FALSE,
      hist |-> <<>>, starts |-> 0, startLen |-> 0,
      flushes |-> 0, noflush |-> FALSE, refetch |-> FALSE,
      rep |-> [on |-> FALSE, tc |-> 0, cnt |-> 0, goes |-> 0, cmd |-> <<>>],
      reissued |-> FALSE, againBad |-> FALSE, words |-> <<>>,
      elems |-> 0, took |-> 0,
      sq |-> [c |-> 0, cap |-> 0, bits |-> 0, bytes |-> 0, clks |-> 0,
             done |-> 0, sum |-> 0, bad |-> FALSE],
      wr |-> [n |-> 0, at |-> 0, adr |-> 0, word |-> ZeroWord],
      prev |-> [op |-> -1, goes |-> 0, waitRetry |-> 0, status |-> 0] ]

\* The cycles in which a handler copies outputs of the engine (ack, perr,
\* dread) into the response
CopiesEngine(s) ==
    CASE s.fsm = "DAP_Wait_Done"             -> ~s.dbgif_go /\ dbg_done(s)
      [] s.fsm = "DAP_Transfer_PROCESS"      -> s.txb = 7 /\ dbg_done(s)
      [] s.fsm = "DAP_TransferBlock_PROCESS" -> s.txb = 6 /\ dbg_done(s)
      [] s.fsm = "DAP_SWJ_Pins_PROCESS"      -> dbg_done(s)
      [] OTHER                               -> FALSE

\* The cycles in which a handler takes 'done' high as the completion of its
\* command and moves on
TakesCompletion(s) ==
    CASE s.fsm \in {"DAP_Wait_Done", "DAP_Wait_Connect_Done"}
                                             -> ~s.dbgif_go /\ dbg_done(s)
      [] s.fsm = "DAP_Transfer_PROCESS"      -> s.txb = 7 /\ dbg_done(s)
      [] s.fsm = "DAP_TransferBlock_PROCESS" -> s.txb = 6 /\ dbg_done(s)
      [] s.fsm = "DAP_SWJ_Sequence_PROCESS"  ->
            s.txb \in 2..3 /\ ~s.dbgif_go /\ dbg_done(s)
      [] s.fsm = "DAP_SWJ_Pins_PROCESS"      -> dbg_done(s)
      [] OTHER                               -> FALSE

\* Per assertion of go: 'pending' from the cycle go is set until a handler
\* takes the completion; 'twice' when a completion is taken with none
\* pending; 'rego' when go is set again with a completion still pending;
\* 'held' when go stays set in the cycle after done was seen low
ObserveCompletion(o, s, n) ==
    LET take == TakesCompletion(s)
        rise == n.dbgif_go /\ ~s.dbgif_go
    IN  [o EXCEPT !.twice = @ \/ (take /\ ~o.pending),
                  !.rego = @ \/ (rise /\ o.pending /\ ~take),
                  !.held = @ \/ (s.dbgif_go /\ ~dbg_done(s) /\ n.dbgif_go),
                  !.pending = IF rise THEN TRUE ELSE IF take THEN FALSE ELSE @]

\* Per element of a Transfer or TransferBlock: 'fresh' while the next engine
\* attempt is the first of an element (the attempt before it, if any, was
\* answered neither WAIT nor again); 'stale' when a first attempt was issued
\* with a retry counter that is not zero
ObserveElement(o, s, n, e) ==
    IF s.fsm \notin {"DAP_Transfer_PROCESS", "DAP_TransferBlock_PROCESS"} THEN o
    ELSE LET fresh == IF TakesCompletion(s)
                      THEN ~(e.ack = ACK_WAIT \/ e.again) ELSE o.fresh
             issue == n.dbgif_go /\ ~s.dbgif_go
         IN  [o EXCEPT !.stale = @ \/ (issue /\ fresh /\
                                         (s.retries # 0 \/ s.matchretries # 0)),
                       !.fresh = IF issue THEN FALSE ELSE fresh]

\* The status byte of the response of a Transfer (byte 2) or of a
\* TransferBlock (byte 3), 0 while it has not been sent
StatusByte(op, resp) ==
    LET k == IF op = DAP_Transfer THEN 3 ELSE 4
    IN  IF Len(resp) >= k THEN resp[k][1] ELSE 0

\* What is remembered of the Transfer or TransferBlock that ran before the
\* command now taken
ObservePrev(o, s) ==
    IF o.op \in {DAP_Transfer, DAP_TransferBlock} /\ o.dispatched
    THEN [op |-> o.op, goes |-> o.goes, waitRetry |-> s.waitRetry,
          status |-> StatusByte(o.op, o.resp)]
    ELSE o.prev

\* The cycles in which a data phase takes streamOut.payload
ConsumesStream(s) ==
    CASE s.fsm = "DAP_Transfer_PROCESS"      -> s.txb \in 0..4 /\ streamOut_ready(s)
      [] s.fsm = "DAP_TransferBlock_PROCESS" -> s.txb \in 0..3 /\ streamOut_ready(s)
      [] s.fsm = "DAP_SWJ_Sequence_PROCESS"  -> s.txb = 0 /\ streamOut_ready(s)
      [] s.fsm = "DAP_JTAG_Sequence_PROCESS" ->
            s.seqCount # 0 /\ s.txb \in 0..1 /\ streamOut_ready(s)
      [] OTHER                               -> FALSE

\* The Transfer requests taken from the stream (up to MaxLog), the words the
\* engine returned for read transactions when the handler looked at the
\* result (up to MaxLog), whether a data phase took a byte the stream
\* did not present as a further byte of the packet (starved), and whether
\* it took the payload in a cycle in which valid was low (blind)
ObserveTransfer(o, s, so, e) ==
    LET o1 == IF s.fsm = "DAP_Transfer_PROCESS" /\ s.txb = 0 /\ streamOut_ready(s)
                 /\ Len(o.reqs) < MaxLog
              THEN [o EXCEPT !.reqs = Append(@, so.payload)] ELSE o
        o2 == IF CopiesEngine(s) /\ s.dbgif_rnw = 1 /\ Len(o.rd) < MaxLog
                 /\ s.fsm \in {"DAP_Transfer_PROCESS", "DAP_TransferBlock_PROCESS"}
              THEN [o1 EXCEPT !.rd = Append(@, e.dread)] ELSE o1
    IN  [o2 EXCEPT !.starved = @ \/ (ConsumesStream(s) /\ (~so.valid \/ so.first)),
                   !.blind = @ \/ (ConsumesStream(s) /\ ~so.valid)]

\* How far the handshake of the engine command given last has come, as the
\* core sees it in state s: "go" once go is set, "released" when go is
\* cleared on seeing done low, "done" when done is then seen high
HandshakeSeen(o, s) ==
    IF o.hs = "released" /\ dbg_done(s) THEN "done" ELSE o.hs

HandshakeNext(o, s, n) ==
    IF n.dbgif_go /\ ~s.dbgif_go THEN "go"
    ELSE IF s.dbgif_go /\ ~n.dbgif_go
    THEN IF o.hs = "go" /\ ~dbg_done(s) THEN "released" ELSE "broken"
    ELSE HandshakeSeen(o, s)

\* The flush read of RDBUFF (a DP read of address 0xC) that Transfer and
\* TransferBlock give when a command ends in posted mode
IsFlushIssue(s, n) ==
    /\ n.dbgif_go /\ ~s.dbgif_go
    /\ \/ s.fsm = "DAP_Transfer_PROCESS" /\ s.tfrReq = 14
       \/ /\ s.fsm = "DAP_TransferBlock_PROCESS"
          /\ s.dbgif_apndp = 0 /\ s.dbgif_rnw = 1 /\ s.dbgif_addr32 = 3

\* The handler takes a completion and turns to sending the response
EndsCommand(s, n) ==
    /\ TakesCompletion(s)
    /\ \/ s.fsm = "DAP_Transfer_PROCESS" /\ n.txb = 8
       \/ s.fsm = "DAP_TransferBlock_PROCESS" /\ n.txb = 7

\* The flush reads given (counted up to 2), whether the command turned to
\* its response in posted mode without having flushed, and whether Transfer
\* went back to fetch a request after a flush
ObserveFlush(o, s, n, e) ==
    [o EXCEPT !.flushes = IF IsFlushIssue(s, n) /\ @ < 2 THEN @ + 1 ELSE @,
              !.noflush = @ \/ (EndsCommand(s, n) /\ e.postedMode /\ o.flushes = 0),
              !.refetch = @ \/ /\ o.flushes >= 1
                               /\ s.fsm = "DAP_Transfer_PROCESS"
                               /\ TakesCompletion(s) /\ n.txb = 0]

\* The elements of a Transfer or TransferBlock that were executed: the first
\* engine attempts of an element (up to MaxGoes); a WAIT retry, a repeat on
\* 'again' and the flush read of RDBUFF are further attempts, not elements
ObserveCount(o, s, n, e) ==
    IF s.fsm \notin {"DAP_Transfer_PROCESS", "DAP_TransferBlock_PROCESS"} THEN o
    ELSE LET fresh == IF TakesCompletion(s)
                      THEN ~(e.ack = ACK_WAIT \/ e.again) ELSE o.fresh
             issue == n.dbgif_go /\ ~s.dbgif_go
         IN  IF issue /\ fresh /\ ~IsFlushIssue(s, n) /\ o.elems < MaxGoes
             THEN [o EXCEPT !.elems = @ + 1] ELSE o

\* The bytes of the packet (valid high) that the data phase of a TransferBlock
\* took from the stream, counted up to 4
ObserveTaken(o, s, so) ==
    IF s.fsm = "DAP_TransferBlock_PROCESS" /\ ConsumesStream(s) /\ so.valid
       /\ o.took < 4
    THEN [o EXCEPT !.took = @ + 1] ELSE o

\* ceil(k / 8)
Octets(k) == (k + 7) \div 8

\* The sequences of SWJ_Sequence and JTAG_Sequence as they are driven.
\* SWJ_Sequence: c is the byte fetched last, bytes the fetches, bits the data
\* phases and clks the clock phases given to the engine, done the completions
\* taken; bad when a data bit is not bit 'bitcount' of the byte fetched.
\* JTAG_Sequence: c and cap are the cycle field and the capture flag of the
\* info byte, bits and bytes the clocks and the TDI fetches of the sequence
\* in progress, done the sequences completed, sum the octets of the
\* capturing sequences completed; bad when a sequence completes with a
\* number of clocks other than c (64 for 0) or of TDI bytes other than
\* ceil(clocks / 8), or when seqCount moves other than by one on completion.
ObserveSequence(o, s, n, so) ==
    IF s.fsm = "DAP_SWJ_Sequence_PROCESS"
    THEN LET q  == o.sq
             q1 == IF s.txb = 0 /\ streamOut_ready(s)
                   THEN [q EXCEPT !.c = so.payload, !.bytes = @ + 1]
                   ELSE IF s.txb = 1
                   THEN [q EXCEPT !.bits = @ + 1,
                                  !.bad = @ \/ Bit(n.dbgif_pinsin, 1) # Bit(q.c, s.bitcount)]
                   ELSE IF s.txb = 2 /\ n.txb = 3
                   THEN [q EXCEPT !.clks = @ + 1]
                   ELSE q
         IN  [o EXCEPT !.sq = IF TakesCompletion(s)
                              THEN [q1 EXCEPT !.done = @ + 1] ELSE q1]
    ELSE IF s.fsm = "DAP_JTAG_Sequence_PROCESS" /\ s.seqCount # 0
    THEN LET q == o.sq
             want == IF q.c = 0 THEN 64 ELSE q.c
         IN  [o EXCEPT !.sq =
                 IF s.txb = 0 /\ streamOut_ready(s)
                 THEN [q EXCEPT !.c = so.payload % 64, !.cap = Bit(so.payload, 7),
                                !.bits = 0, !.bytes = 0]
                 ELSE IF s.txb = 1 /\ streamOut_ready(s)
                 THEN [q EXCEPT !.bytes = @ + 1]
                 ELSE IF s.txb = 2 /\ n.seqCount # s.seqCount
                 THEN [q EXCEPT !.bits = @ + 1, !.done = @ + 1,
                                !.sum = @ + q.cap * Octets(q.bits + 1),
                                !.bad = @ \/ q.bits + 1 # want
                                          \/ q.bytes # Octets(want)
                                          \/ n.seqCount # s.seqCount - 1]
                 ELSE IF s.txb = 2
                 THEN [q EXCEPT !.bits = @ + 1, !.bad = @ \/ q.bits + 1 >= want]
                 ELSE q]
    ELSE o

\* The executed-count field of the response under construction
CountField(s) ==
    IF s.fsm = "DAP_Transfer_PROCESS" THEN GetByte(s.txBlock, 1)
    ELSE GetByte(s.txBlock, 1) + 256 * GetByte(s.txBlock, 2)

\* The access the core asks the engine for
EngineAccess(s) == <<s.dbgif_apndp, s.dbgif_rnw, s.dbgif_addr32, s.dbgif_dwrite>>

\* The handler takes a completion that carries 'again' and acts on it
TakesAgain(s, e) ==
    /\ s.fsm \in {"DAP_Transfer_PROCESS", "DAP_TransferBlock_PROCESS"}
    /\ TakesCompletion(s)
    /\ e.again /\ e.ack # ACK_WAIT
    /\ s.fsm = "DAP_Transfer_PROCESS" => Bit(s.tfrReq, 4) = 0

\* At a completion with 'again' the remaining count, the count field and the
\* access are noted; at the completion after it they are compared: 'reissued'
\* when exactly one further command was given and all three are as they
\* were, 'againBad' otherwise
ObserveAgain(o, s, e) ==
    IF s.fsm \notin {"DAP_Transfer_PROCESS", "DAP_TransferBlock_PROCESS"}
       \/ ~TakesCompletion(s)
    THEN o
    ELSE LET same == /\ o.goes = o.rep.goes + 1
                     /\ s.transferCount = o.rep.tc
                     /\ CountField(s) = o.rep.cnt
                     /\ EngineAccess(s) = o.rep.cmd
             o1   == IF o.rep.on /\ o.rep.goes < MaxGoes
                     THEN [o EXCEPT !.reissued = @ \/ same, !.againBad = @ \/ ~same]
                     ELSE o
         IN  [o1 EXCEPT !.rep = [on |-> TakesAgain(s, e), tc |-> s.transferCount,
                                 cnt |-> CountField(s), goes |-> o.goes,
                                 cmd |-> EngineAccess(s)]]

\* The words of the read transfers of a Transfer that completed (up to
\* MaxLog): a read the engine answered OK, with data, that is not to be
\* repeated
ObserveWords(o, s, e) ==
    IF /\ s.fsm = "DAP_Transfer_PROCESS" /\ TakesCompletion(s)
       /\ s.dbgif_rnw = 1 /\ e.ack = ACK_OK /\ e.perr = 0
       /\ ~e.again /\ ~e.ignoreData
       /\ Len(o.words) < MaxLog
    THEN [o EXCEPT !.words = Append(@, e.dread)]
    ELSE o

\* The handlers started for the frame in progress (counted up to 2) and the
\* accumulated length at the latest start: the decoder leaves RxParams
\* without having taken a byte
ObserveStart(o, s, n) ==
    IF s.fsm = "RxParams" /\ n.fsm # "RxParams" /\ n.rxedLen = s.rxedLen
    THEN [o EXCEPT !.starts = IF @ < 2 THEN @ + 1 ELSE @, !.startLen = s.rxedLen]
    ELSE o

\* The commands before the one in progress, the latest two: the opcode, and
\* the connected and running flags the command left behind
ObserveHistory(o, s) ==
    IF o.op = -1 THEN o.hist
    ELSE LET h == Append(o.hist, <<o.op, s.connected, s.running>>)
         IN  IF Len(h) > 2 THEN Tail(h) ELSE h

\* The store during an engine command: the cycles with tfrram.we since go
\* was raised (n, up to 2), the address cursor when go was raised (at), and
\* the address and the word of the last write
ObserveStore(o, s, n, e) ==
    LET o1 == IF tfrram_we(s)
              THEN [o EXCEPT !.wr.n = IF @ < 2 THEN @ + 1 ELSE @,
                             !.wr.adr = s.tfrram_adr,
                             !.wr.word = tfrram_dat_w(s, e)]
              ELSE o
    IN  IF n.dbgif_go /\ ~s.dbgif_go
        THEN [o1 EXCEPT !.wr.n = 0, !.wr.at = n.tfrram_adr]
        ELSE o1

Observe(o, s, n, so, e) ==
    LET o1 == IF s.fsm = "IDLE" /\ so.valid /\ so.first
              THEN [ObsReset EXCEPT !.op = so.payload, !.nrx = 1,
                                    !.lastAt = IF so.last THEN 1 ELSE 0,
                                    !.pending = o.pending,
                                    !.prev = ObservePrev(o, s),
                                    !.hist = ObserveHistory(o, s)]
              ELSE IF s.fsm = "RxParams" /\ s.rxedLen = s.rxLen
              THEN [o EXCEPT !.dispatched = TRUE]
              ELSE IF s.fsm = "RxParams" /\ so.valid
              THEN [o EXCEPT !.nrx = o.nrx + 1,
                             !.lastAt = IF o.lastAt = 0 /\ so.last
                                        THEN o.nrx + 1 ELSE o.lastAt]
              ELSE o
        o2 == IF n.streamIn_valid
              THEN [o1 EXCEPT !.resp = Append(@, <<n.streamIn_payload, n.streamIn_last>>)]
              ELSE o1
        o2a == ObserveWords(ObserveAgain(o2, s, e), s, e)
        o3 == IF n.dbgif_go /\ ~s.dbgif_go /\ o2a.goes < MaxGoes
              THEN [o2a EXCEPT !.goes = @ + 1] ELSE o2a
        o4 == ObserveFlush(
                  ObserveStart(
                      ObserveElement(
                          ObserveCount(
                              ObserveCompletion(
                                  ObserveTransfer(
                                      ObserveSequence(ObserveTaken(o3, s, so),
                                                      s, n, so),
                                      s, so, e),
                                  s, n),
                              s, n, e),
                          s, n, e),
                      s, n),
                  s, n, e)
        o5 == ObserveStore(o4, s, n, e)
    IN  [o5 EXCEPT !.hs = HandshakeNext(o1, s, n),
                   !.early = o1.early \/ (CopiesEngine(s) /\ HandshakeSeen(o1, s) # "done")]

\* ------------------------------------------------------------ the actions
\* The consumer of the response follows the protocol of the inbound stream:
\* a byte passes in a cycle in which valid and ready are both high.
\* 'pulls' counts the RESPOND cycles in which the consumer asserted ready
\* while bytes of the declared length were still to come; 'lost' says that a
\* byte was presented with valid in a cycle in which ready was low.
ObserveSink(o, s, rdy) ==
    LET o1 == IF s.fsm = "RESPOND" /\ rdy /\ Len(o.resp) < s.txLen
              THEN [o EXCEPT !.pulls = @ + 1] ELSE o
    IN  [o1 EXCEPT !.lost = @ \/ (s.streamIn_valid /\ ~rdy)]

\* One clock edge: the registers take the values n the FSM state computed,
\* the store is written when write-enable is on, and the environment moves;
\* rdy is streamIn.ready in this cycle
ClockSink(n, rdy) ==
    /\ dap' = n
    /\ mem' = IF tfrram_we(dap)
              THEN MemWrite(mem, dap.tfrram_adr, tfrram_dat_w(dap, dbg))
              ELSE mem
    /\ streamOut' \in HostNext(streamOut, dap, scn)
    /\ dbg' \in EngineStep(dbg, dap, scn)
    /\ obs' = Observe(ObserveSink(obs, dap, rdy), dap, n, streamOut, dbg)
    /\ scn' = scn

\* A clock edge of a state whose handler does not read streamIn.ready
Clock(n) == \E rdy \in scn.ready : ClockSink(n, rdy)

Now == EveryTick(dap, mem, dbg)

Idle ==
    /\ dap.fsm = "IDLE"
    /\ Clock(IDLE(dap, Now, streamOut))

Respond ==
    /\ dap.fsm = "RESPOND"
    /\ \E rdy \in scn.ready : ClockSink(RESPOND(dap, Now, rdy), rdy)

RxParamsStep ==
    /\ dap.fsm = "RxParams"
    /\ Clock(RxParams(dap, Now, streamOut))

ProtocolError ==
    /\ dap.fsm = "ProtocolError"
    /\ Clock(RESP_Invalid(Now))

SWD_Sequence_GetCount ==
    /\ dap.fsm = "DAP_SWD_Sequence_GetCount"
    /\ Clock(RESP_Invalid(Now))

ExecuteCommands_GetNum ==
    /\ dap.fsm = "DAP_ExecuteCommands_GetNum"
    /\ Clock(RESP_Invalid(Now))

QueueCommands_GetNum ==
    /\ dap.fsm = "DAP_QueueCommands_GetNum"
    /\ Clock(RESP_Invalid(Now))

Wait_Done ==
    /\ dap.fsm = "DAP_Wait_Done"
    /\ Clock(RESP_Wait_Done(dap, Now, dbg))

Wait_Connect_Done ==
    /\ dap.fsm = "DAP_Wait_Connect_Done"
    /\ Clock(RESP_Wait_Connect_Done(dap, Now))

SWJ_Pins_Process ==
    /\ dap.fsm = "DAP_SWJ_Pins_PROCESS"
    /\ Clock(RESP_SWJ_Pins_Process(dap, Now, dbg))

SWJ_Sequence_Process ==
    /\ dap.fsm = "DAP_SWJ_Sequence_PROCESS"
    /\ Clock(RESP_SWJ_Sequence_Process(dap, Now, streamOut))

SWO_Data_Process ==
    /\ dap.fsm = "DAP_SWO_Data_PROCESS"
    /\ \E rdy \in scn.ready : ClockSink(RESP_SWO_Data_Process(dap, Now, rdy), rdy)

JTAG_Sequence_Process ==
    /\ dap.fsm = "DAP_JTAG_Sequence_PROCESS"
    /\ Clock(RESP_JTAG_Sequence_PROCESS(dap, Now, streamOut))

Transfer_Process ==
    /\ dap.fsm = "DAP_Transfer_PROCESS"
    /\ \E rdy \in scn.ready :
           ClockSink(RESP_Transfer_Process(dap, Now, streamOut, rdy, dbg), rdy)

TransferBlock_Process ==
    /\ dap.fsm = "DAP_TransferBlock_PROCESS"
    /\ \E rdy \in scn.ready :
           ClockSink(RESP_TransferBlock_Process(dap, Now, streamOut, rdy, dbg), rdy)

\* ------------------------------------------------------ the environments
MaxPackets == 1

MaxLen == 8

\* Every opcode the decoder names, and two it does not
AllOpcodes ==
    { DAP_Info, DAP_HostStatus, DAP_Connect, DAP_Disconnect, DAP_TransferConfigure,
      DAP_Transfer, DAP_TransferBlock, DAP_TransferAbort, DAP_WriteABORT, DAP_Delay,
      DAP_ResetTarget, DAP_SWJ_Pins, DAP_SWJ_Clock, DAP_SWJ_Sequence,
      DAP_SWD_Configure, DAP_JTAG_Sequence, DAP_JTAG_Configure, DAP_JTAG_IDCODE,
      DAP_SWO_Transport, DAP_SWO_Mode, DAP_SWO_Baudrate, DAP_SWO_Control,
      DAP_SWO_Status, DAP_SWO_Data, DAP_SWD_Sequence, DAP_SWO_ExtendedStatus,
      DAP_ExecuteCommands, DAP_QueueCommands, DAP_Invalid, 11 }

\* The parameter bytes the host sends after each opcode that has parameters;
\* small values keep the data phases short
SmallParams ==
    [ op \in AllOpcodes |->
        CASE op = DAP_Info              -> << {1, 254} >>
          [] op = DAP_Connect           -> << {1, 3} >>
          [] op = DAP_SWJ_Sequence      -> << {1, 9} >>
          [] op = DAP_JTAG_Sequence     -> << {0, 1} >>
          [] op = DAP_HostStatus        -> << {0, 2}, {1} >>
          [] op = DAP_SWO_Data          -> << {1}, {0} >>
          [] op = DAP_Transfer          -> << {0}, {0, 1} >>
          [] op = DAP_TransferBlock     -> << {0}, {0, 1}, {0}, {2} >>
          [] op = DAP_JTAG_Configure    -> << {1}, {4} >>
          [] op = DAP_TransferConfigure -> << {0}, {1}, {0}, {1}, {0} >>
          [] op = DAP_SWJ_Pins          -> << {1}, {1}, {2}, {0}, {0}, {0} >>
          [] OTHER                      -> << >> ]

\* The decoder over every opcode: any packet boundaries, a host that sends a
\* packet when the core is idle, with or without pauses between the bytes, a
\* sink and an engine of any latency
ScnDecoder ==
    [ opcodes |-> AllOpcodes, params |-> SmallParams, stream |-> {2},
      idle |-> {0},
      maxLen |-> MaxLen, maxPackets |-> MaxPackets, pipelined |-> FALSE, gaps |-> TRUE,
      ready |-> BOOLEAN,
      acks |-> {ACK_OK}, perrs |-> {0}, dreads |-> {<<165, 0, 0, 0>>},
      flags |-> {<<FALSE, FALSE, FALSE>>}, latency |-> TRUE,
      posted |-> FALSE ]

InitWith(c) ==
    /\ dap = DapReset
    /\ mem = MemInit
    /\ streamOut = HostReset
    /\ dbg = EngineReset
    /\ obs = ObsReset
    /\ scn = c

Init == InitWith(ScnDecoder)

Next ==
    \/ Idle
    \/ Respond
    \/ RxParamsStep
    \/ ProtocolError
    \/ SWD_Sequence_GetCount
    \/ ExecuteCommands_GetNum
    \/ QueueCommands_GetNum
    \/ Wait_Done
    \/ Wait_Connect_Done
    \/ SWJ_Pins_Process
    \/ SWJ_Sequence_Process
    \/ SWO_Data_Process
    \/ JTAG_Sequence_Process
    \/ Transfer_Process
    \/ TransferBlock_Process

Spec == Init /\ [][Next]_vars

\* -------------------------------------------- JTAG sequences that capture
\* The longest packet of the JTAG environment: a JTAG_Sequence header and
\* the info and TDI bytes of two sequences of 64 clocks
JtagMaxLen == 20

JtagPackets == 2

\* A JTAG_Sequence command of two sequences; what follows it in the stream
\* is 0x80: as an info byte 64 clocks with TDO captured, as a TDI byte data
ScnJTAG ==
    [ opcodes |-> {DAP_JTAG_Sequence, 128},
      params |-> [op \in {DAP_JTAG_Sequence} |-> << {2} >>],
      stream |-> {128}, idle |-> {0},
      maxLen |-> JtagMaxLen, maxPackets |-> JtagPackets,
      pipelined |-> TRUE, gaps |-> FALSE, ready |-> {TRUE},
      acks |-> {ACK_OK}, perrs |-> {0}, dreads |-> {ZeroWord},
      flags |-> {<<FALSE, FALSE, FALSE>>}, latency |-> FALSE,
      posted |-> FALSE ]

\* JTAG_Sequence commands of two sequences, each in a packet of its own; the
\* bytes after the header are 0x03 (as an info byte 3 clocks), 0x89 (9 clocks,
\* TDO captured), 0x80 (64 clocks, captured) or 0xA8 (40 clocks, captured)
ScnJTAGMix ==
    [ opcodes |-> {DAP_JTAG_Sequence},
      params |-> [op \in {DAP_JTAG_Sequence} |-> << {2} >>],
      stream |-> {3, 137, 128, 168}, idle |-> {0},
      maxLen |-> JtagMaxLen, maxPackets |-> JtagPackets,
      pipelined |-> FALSE, gaps |-> FALSE, ready |-> {TRUE},
      acks |-> {ACK_OK}, perrs |-> {0}, dreads |-> {ZeroWord},
      flags |-> {<<FALSE, FALSE, FALSE>>}, latency |-> FALSE,
      posted |-> FALSE ]

InitJTAG == \E c \in {ScnJTAG, ScnJTAGMix} : InitWith(c)

NextJTAG ==
    \/ Idle
    \/ Respond
    \/ RxParamsStep
    \/ ProtocolError
    \/ JTAG_Sequence_Process

SpecJTAG == InitJTAG /\ [][NextJTAG]_vars

\* ------------------------------------------------------ Transfer commands
\* The longest packet of the Transfer environments: the header and two
\* write requests
TransferMaxLen == 13

TransferPackets == 2

\* Packets of the environment of plain transfers
PlainPackets == 1

\* The retry budget TransferConfigure sets in these environments
RetryBudget == 2

TransferParams(cfg, tfr) ==
    [op \in {DAP_TransferConfigure, DAP_Transfer} |->
        IF op = DAP_TransferConfigure THEN cfg ELSE tfr]

\* One or two plain reads and writes; the engine answers OK, no parity
\* error, no again, no posted mode, data valid
ScnTransferOK ==
    [ opcodes |-> {DAP_Transfer},
      params |-> TransferParams(<< >>, << {0}, {1, 2} >>),
      stream |-> {0, 2}, idle |-> {0},
      maxLen |-> TransferMaxLen, maxPackets |-> PlainPackets,
      pipelined |-> FALSE, gaps |-> FALSE, ready |-> BOOLEAN,
      acks |-> {ACK_OK}, perrs |-> {0},
      dreads |-> {<<165, 0, 0, 0>>, <<90, 1, 2, 3>>},
      flags |-> {<<FALSE, FALSE, FALSE>>}, latency |-> TRUE,
      posted |-> FALSE ]

\* TransferConfigure with waitRetry = RetryBudget, then reads and writes; the
\* engine answers WAIT to every attempt
ScnTransferWait ==
    [ opcodes |-> {DAP_TransferConfigure, DAP_Transfer},
      params |-> TransferParams(<< {0}, {RetryBudget}, {0}, {0}, {0} >>,
                                << {0}, {1, 2} >>),
      stream |-> {0, 2}, idle |-> {0},
      maxLen |-> TransferMaxLen, maxPackets |-> TransferPackets,
      pipelined |-> FALSE, gaps |-> FALSE, ready |-> {TRUE},
      acks |-> {ACK_WAIT}, perrs |-> {0}, dreads |-> {<<165, 0, 0, 0>>},
      flags |-> {<<FALSE, FALSE, FALSE>>}, latency |-> TRUE,
      posted |-> FALSE ]

\* TransferConfigure with matchRetry = RetryBudget or 0, then one value-match
\* read (request 0x12) that expects 0 or 1; the engine answers OK
ScnTransferMatch ==
    [ opcodes |-> {DAP_TransferConfigure, DAP_Transfer},
      params |-> TransferParams(<< {0}, {0}, {0}, {0, RetryBudget}, {0} >>,
                                << {0}, {1}, {18}, {0, 1}, {0}, {0}, {0} >>),
      stream |-> {0}, idle |-> {0},
      maxLen |-> TransferMaxLen, maxPackets |-> TransferPackets,
      pipelined |-> FALSE, gaps |-> FALSE, ready |-> {TRUE},
      acks |-> {ACK_OK}, perrs |-> {0},
      dreads |-> {<<165, 0, 0, 0>>, <<0, 0, 0, 0>>},
      flags |-> {<<FALSE, FALSE, FALSE>>}, latency |-> FALSE,
      posted |-> FALSE ]

\* One or two plain reads and writes; the engine answers FAULT (ack 4) to
\* every attempt
ACK_FAULT == 4

ScnTransferFault ==
    [ opcodes |-> {DAP_Transfer},
      params |-> TransferParams(<< >>, << {0}, {1, 2} >>),
      stream |-> {0, 2}, idle |-> {0},
      maxLen |-> TransferMaxLen, maxPackets |-> PlainPackets,
      pipelined |-> FALSE, gaps |-> FALSE, ready |-> {TRUE},
      acks |-> {ACK_FAULT}, perrs |-> {0}, dreads |-> {<<165, 0, 0, 0>>},
      flags |-> {<<FALSE, FALSE, FALSE>>}, latency |-> FALSE,
      posted |-> FALSE ]

\* A Transfer of a match-mask write (request 0x20) with the operand 0xFF,
\* alone or followed by a value-match read (request 0x12) that expects 1; the
\* engine answers OK
ScnTransferMask ==
    [ opcodes |-> {DAP_Transfer},
      params |-> TransferParams(<< >>,
                                << {0}, {1, 2}, {32}, {255}, {0}, {0}, {0},
                                   {18}, {1}, {0}, {0}, {0} >>),
      stream |-> {0}, idle |-> {0},
      maxLen |-> TransferMaxLen, maxPackets |-> PlainPackets,
      pipelined |-> FALSE, gaps |-> FALSE, ready |-> {TRUE},
      acks |-> {ACK_OK}, perrs |-> {0},
      dreads |-> {<<165, 0, 0, 0>>, <<1, 0, 0, 0>>},
      flags |-> {<<FALSE, FALSE, FALSE>>}, latency |-> FALSE,
      posted |-> FALSE ]

InitTransfer ==
    \E c \in {ScnTransferOK, ScnTransferWait, ScnTransferMatch, ScnTransferFault,
              ScnTransferMask} :
        InitWith(c)

NextTransfer ==
    \/ Idle
    \/ Respond
    \/ RxParamsStep
    \/ ProtocolError
    \/ Wait_Done
    \/ Transfer_Process

SpecTransfer == InitTransfer /\ [][NextTransfer]_vars

\* ---------------------------------------------- TransferBlock environment
\* Packets of the environment that runs Transfer and TransferBlock in turn
RetryPackets == 3

BlockParams(cfg, tfr, blk) ==
    [op \in {DAP_TransferConfigure, DAP_Transfer, DAP_TransferBlock} |->
        IF op = DAP_TransferConfigure THEN cfg
        ELSE IF op = DAP_Transfer THEN tfr ELSE blk]

\* TransferConfigure with waitRetry = RetryBudget, then a TransferBlock of one
\* or two reads or writes; the engine answers OK or WAIT as it likes
ScnBlock ==
    [ opcodes |-> {DAP_TransferConfigure, DAP_TransferBlock},
      params |-> BlockParams(<< {0}, {RetryBudget}, {0}, {0}, {0} >>, << >>,
                             << {0}, {1, 2}, {0}, {0, 2} >>),
      stream |-> {0}, idle |-> {0},
      maxLen |-> TransferMaxLen, maxPackets |-> TransferPackets,
      pipelined |-> FALSE, gaps |-> FALSE, ready |-> {TRUE},
      acks |-> {ACK_OK, ACK_WAIT}, perrs |-> {0}, dreads |-> {<<165, 0, 0, 0>>},
      flags |-> {<<FALSE, FALSE, FALSE>>}, latency |-> FALSE,
      posted |-> FALSE ]

\* TransferConfigure with waitRetry = RetryBudget, a Transfer of one read and
\* a TransferBlock of one read, in any order; the engine answers WAIT to
\* every attempt
ScnWaitBoth ==
    [ opcodes |-> {DAP_TransferConfigure, DAP_Transfer, DAP_TransferBlock},
      params |-> BlockParams(<< {0}, {RetryBudget}, {0}, {0}, {0} >>,
                             << {0}, {1} >>,
                             << {0}, {1}, {0}, {2} >>),
      stream |-> {2}, idle |-> {0},
      maxLen |-> TransferMaxLen, maxPackets |-> RetryPackets,
      pipelined |-> FALSE, gaps |-> FALSE, ready |-> {TRUE},
      acks |-> {ACK_WAIT}, perrs |-> {0}, dreads |-> {<<165, 0, 0, 0>>},
      flags |-> {<<FALSE, FALSE, FALSE>>}, latency |-> FALSE,
      posted |-> FALSE ]

\* A Transfer of one or two reads and a TransferBlock of one or two reads or
\* writes; the engine answers OK and may ask for a second phase of any
\* access with 'again'
ScnAgain ==
    [ opcodes |-> {DAP_Transfer, DAP_TransferBlock},
      params |-> BlockParams(<< >>, << {0}, {1, 2} >>,
                             << {0}, {1, 2}, {0}, {0, 2} >>),
      stream |-> {2}, idle |-> {0},
      maxLen |-> TransferMaxLen, maxPackets |-> PlainPackets,
      pipelined |-> FALSE, gaps |-> FALSE, ready |-> {TRUE},
      acks |-> {ACK_OK}, perrs |-> {0}, dreads |-> {<<165, 0, 0, 0>>},
      flags |-> {<<FALSE, FALSE, FALSE>>, <<TRUE, FALSE, FALSE>>},
      latency |-> FALSE,
      posted |-> FALSE ]

\* A TransferBlock of one write that the engine answers OK; the consumer of
\* the response is ready or not as it likes in every cycle
ScnBlockSink ==
    [ opcodes |-> {DAP_TransferBlock},
      params |-> BlockParams(<< >>, << >>, << {0}, {1}, {0}, {0} >>),
      stream |-> {0, 2}, idle |-> {0},
      maxLen |-> TransferMaxLen, maxPackets |-> PlainPackets,
      pipelined |-> FALSE, gaps |-> FALSE, ready |-> BOOLEAN,
      acks |-> {ACK_OK}, perrs |-> {0}, dreads |-> {<<165, 0, 0, 0>>},
      flags |-> {<<FALSE, FALSE, FALSE>>}, latency |-> FALSE,
      posted |-> FALSE ]

InitBlock ==
    \E c \in {ScnBlock, ScnWaitBoth, ScnAgain, ScnBlockSink} : InitWith(c)

NextBlock ==
    \/ Idle
    \/ Respond
    \/ RxParamsStep
    \/ ProtocolError
    \/ Wait_Done
    \/ Transfer_Process
    \/ TransferBlock_Process

SpecBlock == InitBlock /\ [][NextBlock]_vars

\* ------------------------------------------------ fair environment
\* An environment in which the fairness assumptions hold by construction:
\* the engine completes every command without delay, the consumer of the
\* response is always ready, and the host leaves no gap in a packet.  Every
\* tick is then a step of NextFair, and weak fairness of NextFair says only
\* that the clock keeps running.
InitFair == InitWith(ScnTransferMatch)

NextFair ==
    \/ Idle
    \/ Respond
    \/ RxParamsStep
    \/ ProtocolError
    \/ Wait_Done
    \/ Transfer_Process

SpecFair == InitFair /\ [][NextFair]_vars /\ WF_vars(NextFair)

\* ------------------------------------------------------------- properties
\* The command taken last has run to its end: the FSM is back in IDLE
Finished == dap.fsm = "IDLE" /\ obs.op # -1

\* The frame of the command taken last had exactly the declared length: the
\* byte that completed it was the first to carry 'last'
ExactFrame == FrameLen(obs.op) >= 1 /\ obs.lastAt = FrameLen(obs.op)

InvalidResponse == << <<DAP_Invalid, TRUE>> >>

\* C1: for every supported opcode, a packet of exactly the declared frame
\* length, 'last' on its final byte, yields a response whose first byte is
\* the opcode, unless the response is the Invalid sentinel 0xFF.
C1_EchoOpcode ==
    (Finished /\ ExactFrame)
        => /\ Len(obs.resp) >= 1
           /\ obs.resp[1][1] = obs.op \/ obs.resp = InvalidResponse

\* The opcodes of the decoder with a frame of more than one byte
LongFrame(op) == FrameLen(op) > 1

\* The frame of the command taken last was cut short: 'last' came on a byte
\* before the declared length was reached
Truncated == LongFrame(obs.op) /\ obs.lastAt \in 1..(FrameLen(obs.op) - 1)

\* C2: an opcode with a declared frame length above 1 whose packet carries
\* 'last' before that length is reached (also on the opcode byte) is never
\* dispatched; the core answers the one byte 0xFF and returns to IDLE, ready
\* for the next first-of-packet byte.
C2_TruncatedFrame ==
    Truncated
        => /\ ~obs.dispatched
           /\ dap.fsm \in {"ProtocolError", "RESPOND", "IDLE"}
           /\ obs.goes = 0
           /\ IF dap.fsm = "IDLE"
              THEN obs.resp = InvalidResponse /\ streamOut_ready(dap)
              ELSE obs.resp \in {<<>>, InvalidResponse}

C2_Witness ==
    /\ Truncated
    /\ obs.op = DAP_TransferConfigure
    /\ obs.lastAt = 4
    /\ dap.fsm = "IDLE"
    /\ obs.resp = InvalidResponse

\* A first byte that is no opcode with a handler: outside the command table,
\* or one of the three unimplemented commands
NoHandler(op) == FrameLen(op) = 0

\* C3: a first-of-packet byte that is not an opcode with a handler yields
\* exactly one response byte 0xFF marked 'last', never asserts go and ends in
\* IDLE.
C3_UnknownOpcode ==
    (obs.op # -1 /\ NoHandler(obs.op))
        => /\ ~obs.dispatched
           /\ obs.goes = 0 /\ ~dap.dbgif_go
           /\ dap.fsm \in {"ProtocolError", "RESPOND", "IDLE", StubState(obs.op)}
           /\ IF dap.fsm = "IDLE"
              THEN obs.resp = InvalidResponse
              ELSE obs.resp \in {<<>>, InvalidResponse}

C3_Witness ==
    /\ obs.op = DAP_SWD_Sequence
    /\ obs.lastAt = 0
    /\ dap.fsm = "IDLE"
    /\ obs.resp = InvalidResponse

\* ------------------------------------------------- the engine handshake
\* C9: SWJ_Pins returns as its second response byte the pin byte dread[0:8]
\* the engine sampled, after the go/done handshake of the pin operation has
\* completed, whatever the latency of the engine.
C9_PinsAfterHandshake ==
    (Finished /\ obs.op = DAP_SWJ_Pins /\ obs.dispatched)
        => /\ obs.goes >= 1
           /\ obs.hs = "done"
           /\ obs.resp = << <<DAP_SWJ_Pins, FALSE>>, <<dbg.dread[1], TRUE>> >>

\* C10: in every handler that uses the engine, the outputs of the engine
\* are copied into the response only after go was set, done was seen low,
\* go was cleared and done was seen high again; a done still high from an
\* earlier command is never taken for the completion of the new one.
C10_HandshakeOrdered == ~obs.early

\* ------------------------------------------------------------ Transfer
\* The Transfer command taken last was dispatched, and its data phase took
\* only bytes its packet presented
TransferRun == obs.op = DAP_Transfer /\ obs.dispatched /\ ~obs.starved

\* Its request count, as the frame gave it
TransferN == GetByte(dap.rxBlock, 2)

\* The engine of this run always answers OK without parity error, again,
\* posted mode or ignored data
EngineAlwaysOK ==
    /\ scn.acks = {ACK_OK} /\ scn.perrs = {0}
    /\ scn.flags = {<<FALSE, FALSE, FALSE>>}

EngineAlwaysWait == scn.acks = {ACK_WAIT}

\* A plain read or write request: neither value match nor match mask
PlainRequest(r) == Bit(r, 4) = 0 /\ Bit(r, 5) = 0

NumReads(reqs) == Cardinality({i \in 1..Len(reqs) : Bit(reqs[i], 1) = 1})

RECURSIVE Flatten(_)
Flatten(ws) == IF ws = <<>> THEN <<>> ELSE ws[1] \o Flatten(Tail(ws))

\* A response of these bytes, 'last' on the final one
ResponseOf(bytes) == [i \in 1..Len(bytes) |-> <<bytes[i], i = Len(bytes)>>]

\* C5: a Transfer of N plain reads and writes against an engine that always
\* answers OK issues exactly N engine transactions, reports count N and ack
\* OK, and returns one word per read, in request order, each the word the
\* engine returned for that request.
C5_TransferAllOK ==
    (Finished /\ TransferRun /\ EngineAlwaysOK /\ TransferN >= 1
       /\ \A i \in 1..Len(obs.reqs) : PlainRequest(obs.reqs[i]))
        => /\ obs.goes = TransferN
           /\ Len(obs.reqs) = TransferN
           /\ Len(obs.rd) = NumReads(obs.reqs)
           /\ obs.resp = ResponseOf(<<DAP_Transfer, TransferN, ACK_OK>> \o Flatten(obs.rd))

C5_Witness ==
    /\ Finished /\ TransferRun /\ EngineAlwaysOK
    /\ obs.reqs = <<2, 2>>
    /\ obs.rd = << <<165, 0, 0, 0>>, <<90, 1, 2, 3>> >>
    /\ Len(obs.resp) = 11

\* C6: a Transfer against an engine that answers WAIT to every attempt
\* aborts after exactly waitRetry engine attempts and reports the count of
\* elements completed before the abort: 0 when the first element exhausts
\* the retries.
C6_WaitAbort ==
    (Finished /\ TransferRun /\ EngineAlwaysWait /\ TransferN >= 1
       /\ dap.waitRetry = RetryBudget)
        => /\ obs.goes = dap.waitRetry
           /\ Len(obs.resp) >= 3
           /\ obs.resp[2][1] = 0
           /\ obs.resp[3][1] = ACK_WAIT

\* The value-match read of the run: request 0x12 is the only request taken
MatchRead == obs.reqs = <<18>>

Matches(w) == WordAnd(w, dap.mask) = dap.tfrData

\* C7: a value-match read whose first engine result satisfies
\* (dread & mask) = expected causes no retry: exactly one engine transaction
\* is issued for the element.
C7_MatchNoRetry ==
    (TransferRun /\ MatchRead /\ Len(obs.rd) >= 1 /\ Matches(obs.rd[1]))
        => obs.goes = 1

\* C8: a value-match read whose engine result never satisfies
\* (dread & mask) = expected is retried exactly matchRetry times, that is,
\* attempted matchRetry + 1 times; then a mismatch bit is set above ack and
\* perr in the response status and the command ends with a response.
C8_MismatchRetries ==
    (Finished /\ TransferRun /\ MatchRead /\ dap.matchRetry = RetryBudget
       /\ \A w \in scn.dreads : ~Matches(w))
        => /\ obs.goes = dap.matchRetry + 1
           /\ Len(obs.resp) >= 3
           /\ obs.resp[3][1] \div 16 # 0

\* ------------------------------------------------------------ termination
\* A command has been accepted in IDLE and is being decoded or executed
Accepted == obs.op # -1 /\ dap.fsm # "IDLE"

\* The command taken last has answered, the final byte marked 'last', and
\* the FSM is back in IDLE
Responded ==
    /\ dap.fsm = "IDLE"
    /\ Len(obs.resp) >= 1
    /\ obs.resp[Len(obs.resp)][2]

\* C4: with an engine that completes every command, a consumer that is
\* ready and a host that supplies its bytes, every command accepted in IDLE
\* eventually produces a response whose final byte is marked 'last' and
\* the FSM returns to IDLE.
C4_EventuallyResponds == Accepted ~> Responded

\* ------------------------------------------------------- engine handshake
\* C11: for each assertion of go the core takes the completion exactly once:
\* go is cleared in the cycle after done is seen low, go is not set again
\* while a completion is pending, and no completion is taken twice.
C11_CompletionOnce == ~obs.held /\ ~obs.rego /\ ~obs.twice

\* ---------------------------------------------------------------- RESPOND
\* RESPOND presents a byte: the byte under the cursor before it advanced
Streaming == dap.fsm = "RESPOND" /\ dap.streamIn_valid

\* C12: in every reachable state the response cursor txedLen is at most the
\* declared length txLen, and a byte presented in RESPOND carries 'last' if
\* and only if it is the byte for which cursor + 1 equals the declared
\* length.
C12_CursorAndLast ==
    /\ dap.txedLen <= dap.txLen
    /\ Streaming => /\ dap.txedLen >= 1
                    /\ dap.streamIn_last <=> (dap.txedLen = dap.txLen)

C12_Witness ==
    /\ Streaming /\ dap.streamIn_last
    /\ dap.txLen = 2 /\ dap.txedLen = 2
    /\ obs.resp = << <<DAP_Disconnect, FALSE>>, <<0, TRUE>> >>

\* The first k bytes of the response buffer as RESPOND sends them
Drained(k) ==
    [i \in 1..k |-> <<GetByte(dap.txBlock, i - 1), i = dap.txLen>>]

\* The FSM has just come back from RESPOND: the cursor is not yet cleared
JustResponded == dap.fsm = "IDLE" /\ dap.txedLen > 0

\* C13: in RESPOND, for every pattern of readiness of the consumer, the core
\* delivers txBlock[0] .. txBlock[txLen-1] in order, each once and none
\* lost, one byte per cycle in which the consumer asserts ready; after the
\* final byte it is back in IDLE with busy cleared, and the cursor is
\* cleared before anything else is done.
C13_Drains ==
    /\ dap.fsm = "RESPOND" => ~obs.lost
    /\ dap.fsm = "RESPOND"
          => /\ dap.txedLen = obs.pulls
             /\ obs.resp = Drained(dap.txedLen)
    /\ JustResponded
          => /\ obs.resp = Drained(dap.txLen)
             /\ obs.pulls = dap.txLen
             /\ ~dap.busy /\ dap.rxedLen = 0 /\ ~dap.streamIn_valid
    /\ dap.fsm \notin {"RESPOND", "IDLE"} => dap.txedLen = 0

\* --------------------------------------------------------- transfer abort
\* The engine of this run never answers OK: the first element of a transfer
\* cannot complete
EngineNeverOK == ACK_OK \notin scn.acks

\* C14: a Transfer that aborts early takes no further request or data bytes
\* from the inbound stream, issues no further engine transaction, and
\* reports as count the number of elements that completed: here the first
\* element fails (FAULT, or WAIT until the retries are spent), so one
\* request was taken, the attempts are those of the first element, and the
\* count is 0.
C14_AbortStops ==
    (Finished /\ TransferRun /\ EngineNeverOK /\ TransferN >= 1)
        => /\ Len(obs.reqs) = 1
           /\ obs.goes <= dap.waitRetry + 1
           /\ Len(obs.resp) >= 3
           /\ obs.resp[2][1] = 0

\* ---------------------------------------------------------- retry budget
\* C15: at the first engine attempt of every element of a Transfer or
\* TransferBlock both retry counters, retries and matchretries, are zero.
C15_CountersReset == ~obs.stale

\* A Transfer and a TransferBlock have run one after the other, in either
\* order, under the same waitRetry, each with at least one engine attempt
RanBoth ==
    /\ Finished /\ obs.dispatched
    /\ {obs.op, obs.prev.op} = {DAP_Transfer, DAP_TransferBlock}
    /\ obs.prev.waitRetry = dap.waitRetry
    /\ obs.goes >= 1 /\ obs.prev.goes >= 1

\* C16: for the same waitRetry and an engine that answers WAIT to every
\* attempt, TransferBlock makes as many engine attempts before it aborts as
\* Transfer does, and both report WAIT in the ack field of the response.
C16_SameWaitPolicy ==
    (RanBoth /\ EngineAlwaysWait)
        => /\ obs.goes = obs.prev.goes
           /\ StatusByte(obs.op, obs.resp) % 8 = ACK_WAIT
           /\ obs.prev.status % 8 = ACK_WAIT

\* ------------------------------------------------- posted reads
\* Packets of the environment of posted reads
PostedPackets == 1

\* The most elements a command of that environment asks for
PostedCount == 3

\* Transfer and TransferBlock of 1 to PostedCount AP reads (request 0x03)
\* after reset (no retry budget), against an engine that keeps posted mode
\* and answers AP reads with OK or WAIT as it likes
ScnPosted ==
    [ opcodes |-> {DAP_Transfer, DAP_TransferBlock},
      params |-> BlockParams(<< >>, << {0}, 1..PostedCount >>,
                             << {0}, 1..PostedCount, {0}, {3} >>),
      stream |-> {3}, idle |-> {0},
      maxLen |-> TransferMaxLen, maxPackets |-> PostedPackets,
      pipelined |-> FALSE, gaps |-> FALSE, ready |-> {TRUE},
      acks |-> {ACK_OK, ACK_WAIT}, perrs |-> {0},
      dreads |-> {<<165, 0, 0, 0>>},
      flags |-> {<<FALSE, FALSE, FALSE>>}, latency |-> FALSE,
      posted |-> TRUE ]

InitPosted == InitWith(ScnPosted)

NextPosted ==
    \/ Idle
    \/ Respond
    \/ RxParamsStep
    \/ ProtocolError
    \/ Transfer_Process
    \/ TransferBlock_Process

SpecPosted == InitPosted /\ [][NextPosted]_vars

\* ------------------------------------------------- the link commands
\* Packets of the environment of Info, HostStatus, Connect and Disconnect
LinkPackets == 3

\* and the length of its longest packet
LinkMaxLen == 3

LinkOpcodes == {DAP_Info, DAP_HostStatus, DAP_Connect, DAP_Disconnect}

LinkParams ==
    [op \in LinkOpcodes |->
        CASE op = DAP_Info       -> << {254, 255} >>
          [] op = DAP_HostStatus -> << {0, 1}, {1, 2} >>
          [] op = DAP_Connect    -> << {0, 1, 2, 3} >>
          [] OTHER               -> << >> ]

\* Up to LinkPackets packets of Info (packet count, packet size), HostStatus
\* (setting connected or running), Connect (ports 0 to 3) and Disconnect, in
\* any order and of any length up to LinkMaxLen bytes
ScnLink ==
    [ opcodes |-> LinkOpcodes, params |-> LinkParams,
      stream |-> {2}, idle |-> {0},
      maxLen |-> LinkMaxLen, maxPackets |-> LinkPackets,
      pipelined |-> FALSE, gaps |-> FALSE, ready |-> {TRUE},
      acks |-> {ACK_OK}, perrs |-> {0}, dreads |-> {<<165, 0, 0, 0>>},
      flags |-> {<<FALSE, FALSE, FALSE>>}, latency |-> FALSE,
      posted |-> FALSE ]

\* isV2 is the v2Indication the core is built with: either value
InitLink ==
    \E v2Indication \in BOOLEAN :
        /\ dap = [DapReset EXCEPT !.isV2 = v2Indication]
        /\ mem = MemInit
        /\ streamOut = HostReset
        /\ dbg = EngineReset
        /\ obs = ObsReset
        /\ scn = ScnLink

NextLink ==
    \/ Idle
    \/ Respond
    \/ RxParamsStep
    \/ ProtocolError
    \/ Wait_Connect_Done

SpecLink == InitLink /\ [][NextLink]_vars

\* The handler of a Disconnect has run
Disconnected ==
    obs.op = DAP_Disconnect /\ obs.dispatched /\ dap.fsm \in {"RESPOND", "IDLE"}

\* The command before the one in progress was a Disconnect
AfterDisconnect ==
    Len(obs.hist) >= 1 /\ obs.hist[Len(obs.hist)][1] = DAP_Disconnect

\* C18: Disconnect is idempotent: after a Disconnect, and after a second
\* Disconnect given directly after it, connected and running are 0 whatever
\* they were before, and each Disconnect answers the two bytes 0x03, 0x00.
C18_DisconnectIdempotent ==
    /\ Disconnected
           => /\ ~dap.connected /\ ~dap.running
              /\ obs.goes = 0
              /\ dap.fsm = "IDLE" => obs.resp = ResponseOf(<<DAP_Disconnect, 0>>)
    /\ (AfterDisconnect /\ obs.op = DAP_Disconnect)
           => /\ ~dap.connected /\ ~dap.running
              /\ obs.hist[Len(obs.hist)] = <<DAP_Disconnect, FALSE, FALSE>>

C18_Witness ==
    /\ Disconnected
    /\ dap.fsm = "IDLE"
    /\ obs.hist = << <<DAP_HostStatus, TRUE, FALSE>>, <<DAP_Disconnect, FALSE, FALSE>> >>
    /\ obs.resp = << <<3, FALSE>>, <<0, TRUE>> >>

\* An Info command asking for the maximum packet size has been answered
InfoPacketSize ==
    /\ obs.op = DAP_Info /\ obs.dispatched
    /\ GetByte(dap.rxBlock, 1) = 255
    /\ dap.fsm = "IDLE"

\* C19: Info with sub-ID 0xFF returns a maximum packet size of 500 when the
\* transport-v2 indication is set and of 64 otherwise, whatever commands
\* came before.
C19_InfoPacketSize ==
    InfoPacketSize
        => /\ Len(obs.resp) >= 4
           /\ obs.resp[1][1] = DAP_Info
           /\ obs.resp[2][1] = 2
           /\ obs.resp[3][1] + 256 * obs.resp[4][1] = IF dap.isV2 THEN 500 ELSE 64

C19_Witness ==
    /\ InfoPacketSize
    /\ dap.isV2
    /\ Len(obs.hist) = 2
    /\ obs.hist[2][1] = DAP_Info
    /\ obs.resp[3][1] = 244 /\ obs.resp[4][1] = 1

\* The handler of a Connect has run; the port it was given
ConnectRun == obs.op = DAP_Connect /\ obs.dispatched

ConnectPort == GetByte(dap.rxBlock, 1)

\* C20: Connect with port 1 (SWD) or port 0 (the default, SWD) gives exactly
\* one set-SWD command to the engine, waits for its handshake and answers
\* 0x02, 0x01; Connect with any other port, 2 (JTAG) included, answers
\* Invalid and never asserts go.
C20_ConnectPorts ==
    /\ (ConnectRun /\ ConnectPort \in {0, 1})
           => /\ obs.goes = 1
              /\ dap.dbgif_command = CMD_SET_SWD
              /\ dap.fsm \in {"DAP_Wait_Connect_Done", "RESPOND", "IDLE"}
              /\ dap.fsm = "DAP_Wait_Connect_Done" => obs.resp = <<>>
              /\ dap.fsm \in {"RESPOND", "IDLE"} => obs.hs = "done" /\ ~dap.dbgif_go
              /\ dap.fsm = "IDLE" => obs.resp = ResponseOf(<<DAP_Connect, 1>>)
    /\ (ConnectRun /\ ConnectPort \notin {0, 1})
           => /\ obs.goes = 0 /\ ~dap.dbgif_go
              /\ dap.fsm \in {"RESPOND", "IDLE"}
              /\ dap.fsm = "IDLE" => obs.resp = InvalidResponse

C20_Witness ==
    /\ ConnectRun
    /\ ConnectPort = 0
    /\ dap.fsm = "IDLE"
    /\ obs.goes = 1
    /\ obs.hs = "done"
    /\ obs.resp = << <<2, FALSE>>, <<1, TRUE>> >>

\* ------------------------------------------------- commands without engine work
\* A JTAG_Sequence whose sequence count is zero was dispatched
EmptyJtagSequence ==
    obs.op = DAP_JTAG_Sequence /\ obs.dispatched /\ GetByte(dap.rxBlock, 1) = 0

\* C17: a JTAG_Sequence with a sequence count of zero answers exactly the two
\* bytes 0x14, 0x00, its handler takes no further byte from the inbound
\* stream, and go is never asserted.
C17_EmptyJtagSequence ==
    EmptyJtagSequence
        => /\ obs.goes = 0 /\ ~dap.dbgif_go
           /\ ~ConsumesStream(dap)
           /\ dap.fsm \in {"RxParams", "DAP_JTAG_Sequence_PROCESS", "RESPOND", "IDLE"}
           /\ dap.fsm \in {"RxParams", "DAP_JTAG_Sequence_PROCESS"} => obs.resp = <<>>
           /\ dap.fsm = "RESPOND" => dap.txLen = 2
           /\ dap.fsm = "IDLE" => obs.resp = ResponseOf(<<DAP_JTAG_Sequence, 0>>)

C17_Witness ==
    /\ EmptyJtagSequence
    /\ dap.fsm = "IDLE"
    /\ obs.resp = << <<20, FALSE>>, <<0, TRUE>> >>
    /\ obs.goes = 0

\* ------------------------------------------------- the dispatcher
\* C21: a handler is started only when the accumulated length rxedLen equals
\* the length rxLen declared for the opcode, and for each frame that reaches
\* its length the dispatcher runs once and starts one handler.
C21_DispatchOnce ==
    /\ obs.starts <= 1
    /\ obs.starts = 1
           => /\ obs.startLen = FrameLen(obs.op)
              /\ obs.dispatched
              /\ dap.fsm # "RxParams"
    /\ obs.dispatched => obs.starts = 1 \/ dap.fsm = "RxParams"
    /\ (Finished /\ FrameLen(obs.op) >= 1 /\ ~Truncated) => obs.starts = 1

C21_Witness ==
    /\ Finished
    /\ obs.op = DAP_SWJ_Pins
    /\ obs.starts = 1
    /\ obs.startLen = 7
    /\ obs.nrx = 7

\* C22: TransferAbort, declared a one-byte command, is accepted as a
\* supported command: a packet holding only this opcode is not answered with
\* the Invalid response.
C22_TransferAbortAccepted ==
    (Finished /\ obs.op = DAP_TransferAbort /\ obs.lastAt = 1)
        => obs.resp # InvalidResponse

\* ------------------------------------------------- posted mode, repeats
\* C23: when a Transfer or TransferBlock reaches its end while the engine
\* reports posted mode, the core gives exactly one flush read of RDBUFF and
\* then sends the response: the flush is not skipped, not given twice, and
\* no further element is fetched after it.
C23_OneFlush ==
    /\ ~obs.noflush
    /\ obs.flushes <= 1
    /\ ~obs.refetch

\* C24: when the engine completes an attempt with 'again' set, Transfer and
\* TransferBlock give the same access again, with the same request and data,
\* and the remaining count transferCount and the executed-count field of the
\* response are left as they were.
C24_AgainRepeats == ~obs.againBad

C24_Witness ==
    /\ Finished
    /\ obs.op = DAP_TransferBlock
    /\ obs.reissued
    /\ obs.goes = 2
    /\ EngineAccess(dap)[2] = 0

\* ------------------------------------------------- the shape of responses
\* Only the final byte of the response carries 'last'
LastOnFinal ==
    \A i \in 1..Len(obs.resp) : obs.resp[i][2] <=> (i = Len(obs.resp))

\* C25: however a Transfer ends, its response is 3 header bytes and then one
\* 32 bit word for each read transfer that completed, in the order of
\* arrival, 'last' on the final byte; no word is sent for an element that
\* was not executed or returned no data.
C25_TransferResponse ==
    (Finished /\ TransferRun /\ TransferN >= 1
       /\ \A i \in 1..Len(obs.reqs) : PlainRequest(obs.reqs[i]))
        => /\ Len(obs.resp) = 3 + 4 * Len(obs.words)
           /\ obs.resp[1][1] = DAP_Transfer
           /\ \A i \in 1..Len(obs.resp) :
                  i > 3 => obs.resp[i][1] = Flatten(obs.words)[i - 3]
           /\ LastOnFinal

\* A TransferBlock of at least one element that was dispatched and found its
\* data in the packet
BlockRun ==
    /\ obs.op = DAP_TransferBlock /\ obs.dispatched /\ ~obs.starved
    /\ GetByte(dap.rxBlock, 2) + 256 * GetByte(dap.rxBlock, 3) >= 1

\* The 16 bit count of the response of a TransferBlock
BlockCount == obs.resp[2][1] + 256 * obs.resp[3][1]

\* C26: the 16 bit count of the response of a TransferBlock is the number of
\* distinct elements executed, whatever the number of WAIT retries, of
\* repeats on 'again' and of flush reads given while they were executed.
C26_BlockCount ==
    (Finished /\ BlockRun /\ Len(obs.resp) >= 4) => BlockCount = obs.elems

\* ------------------------------------------------- data of a block
\* The request byte of the TransferBlock in progress asks for reads
BlockOfReads ==
    obs.op = DAP_TransferBlock /\ obs.dispatched /\ Bit(GetByte(dap.rxBlock, 4), 1) = 1

\* C27: a TransferBlock whose request is a read (bit 1 set) takes no byte
\* from the inbound stream after its 5 byte prefix and goes straight to the
\* engine transaction: it is never in the states txb 0..3 that collect the
\* 4 data bytes of a write.
C27_ReadTakesNoData ==
    BlockOfReads
        => /\ obs.took = 0
           /\ dap.fsm = "DAP_TransferBlock_PROCESS" => dap.txb \notin 0..3

\* C28: the response to a TransferBlock of writes is exactly the 4 bytes
\* [0x06, count low, count high, ack], in this order, 'last' on the fourth,
\* whatever the consumer does with its ready; the handler is not back in
\* IDLE before the fourth byte was given.
C28_WriteResponse ==
    (Finished /\ BlockRun /\ ~BlockOfReads)
        => /\ Len(obs.resp) = 4
           /\ \A i \in 1..4 : obs.resp[i][1] = GetByte(dap.txBlock, i - 1)
           /\ obs.resp[1][1] = DAP_TransferBlock
           /\ LastOnFinal

\* ------------------------------------------------- nothing to transfer
\* A Transfer or TransferBlock whose transfer count is zero has run
EmptyTransfer ==
    /\ Finished /\ obs.dispatched
    /\ \/ obs.op = DAP_Transfer /\ GetByte(dap.rxBlock, 2) = 0
       \/ obs.op = DAP_TransferBlock /\ GetShort(dap.rxBlock, 2) = 0

\* The response that reports no transfer executed and the ack OK
EmptyResponse(op) ==
    IF op = DAP_Transfer
    THEN << <<DAP_Transfer, FALSE>>, <<0, FALSE>>, <<ACK_OK, TRUE>> >>
    ELSE << <<DAP_TransferBlock, FALSE>>, <<0, FALSE>>, <<0, FALSE>>,
            <<ACK_OK, TRUE>> >>

\* C29: a Transfer or TransferBlock whose transfer count is zero gives the
\* engine no command (go is never set), takes no further byte from the
\* inbound stream, and answers with a response that reports zero transfers
\* executed and the ack OK (1).
C29_EmptyTransfer ==
    EmptyTransfer
        => /\ obs.goes = 0
           /\ obs.reqs = << >> /\ obs.took = 0
           /\ obs.resp = EmptyResponse(obs.op)

\* ------------------------------------------------- the match mask
\* A Transfer of one request, a match-mask write, has run
MaskWriteAlone ==
    /\ Finished /\ TransferRun /\ TransferN = 1
    /\ Len(obs.reqs) = 1 /\ Bit(obs.reqs[1], 5) = 1

\* C30: a request of a Transfer with bit 5 set (match-mask write) stores its
\* 32 bit operand in mask and gives the engine no transaction: the handler
\* is never in the states that issue and await a transaction (txb 5..7)
\* with such a request, and after a Transfer of this one request mask holds
\* the operand and no go was given.
C30_MaskWrite ==
    /\ (dap.fsm = "DAP_Transfer_PROCESS" /\ Bit(dap.tfrReq, 5) = 1)
           => dap.txb \notin 5..7
    /\ MaskWriteAlone => dap.mask = dap.tfrData /\ obs.goes = 0

\* ------------------------------------------------- the mismatch flag
\* A Transfer of one value-match read has ended: with an engine that never
\* answers WAIT the only way to the response is the mismatch exit of txb 7
MismatchEnd ==
    /\ Finished /\ TransferRun /\ MatchRead
    /\ ACK_WAIT \notin scn.acks
    /\ Len(obs.resp) >= 3

\* C31: when a value-match read fails for good, the status byte of the
\* response of the Transfer (byte 2) carries the mismatch flag in bit 4 next
\* to the ack in bits 0..2 and the protocol error in bit 3: it equals
\* ack + 8 * perr + 16.
C31_MismatchBit ==
    MismatchEnd => obs.resp[3][1] = dbg.ack + 8 * dbg.perr + 16

\* ------------------------------------------------- sequences
\* The number of bits a SWJ_Sequence asks for: its count byte, 0 for 256
SwjBits == IF GetByte(dap.rxBlock, 1) = 0 THEN 256 ELSE GetByte(dap.rxBlock, 1)

\* A SWJ_Sequence was dispatched and found its payload in the packet
SwjRun == obs.op = DAP_SWJ_Sequence /\ obs.dispatched /\ ~obs.starved

\* C32: a SWJ_Sequence with the count byte N (0 for 256) drives exactly N
\* bits, the least significant bit of each byte first, with two completed
\* handshakes per bit (data, then clock), fetches exactly ceil(N / 8)
\* payload bytes, and sends its response [0x12, status] only after the
\* handshake of the last bit has completed.
C32_SwjSequence ==
    SwjRun
        => /\ ~obs.sq.bad
           /\ obs.sq.clks <= obs.sq.bits /\ obs.sq.bits <= obs.sq.clks + 1
           /\ obs.sq.bytes = Octets(obs.sq.bits)
              \/ (obs.sq.bytes = Octets(obs.sq.bits) + 1 /\ obs.sq.bits % 8 = 0)
           /\ obs.resp # << >>
                  => /\ obs.sq.bits = SwjBits /\ obs.sq.clks = SwjBits
                     /\ obs.sq.done = 2 * SwjBits
                     /\ obs.sq.bytes = Octets(SwjBits)
                     /\ obs.goes >= IF 2 * SwjBits < MaxGoes THEN 2 * SwjBits ELSE MaxGoes
                     /\ obs.resp[1] = <<DAP_SWJ_Sequence, FALSE>>
           /\ Finished => Len(obs.resp) = 2

C32_Witness ==
    /\ Finished /\ SwjRun
    /\ SwjBits = 9 /\ obs.sq.bits = 9 /\ obs.sq.bytes = 2 /\ obs.sq.done = 18
    /\ Len(obs.resp) = 2

\* A JTAG_Sequence was dispatched and found its info and TDI bytes in the
\* packet
JtagRun == obs.op = DAP_JTAG_Sequence /\ obs.dispatched /\ ~obs.starved

\* The number of sequences the command asks for
JtagSequences == GetByte(dap.rxBlock, 1)

\* C33: every sequence of a JTAG_Sequence clocks exactly c bits for the
\* cycle field c in 1..63 of its info byte and 64 bits for c = 0, takes
\* exactly ceil(bits / 8) TDI bytes from the stream, and counts seqCount down
\* by one when it completes; the command finishes when seqCount is 0.
C33_JtagClocks ==
    JtagRun
        => /\ ~obs.sq.bad
           /\ dap.fsm = "DAP_JTAG_Sequence_PROCESS"
                  => dap.seqCount + obs.sq.done = JtagSequences
           /\ obs.resp # << >>
                  => dap.seqCount = 0 /\ obs.sq.done = JtagSequences

C33_Witness ==
    /\ Finished /\ JtagRun
    /\ obs.sq.done = 2 /\ obs.sq.c = 9 /\ obs.sq.bits = 9 /\ obs.sq.bytes = 2
    /\ dap.seqCount = 0

\* C34: the captured TDO bits are packed from bit 16 of the response on,
\* after the 2 byte header; the bits of a capturing sequence are rounded up
\* to whole bytes when it completes and a sequence without capture adds
\* nothing: the length of the response is 2 plus the sum of ceil(bits / 8)
\* over the capturing sequences.
C34_JtagLength ==
    (Finished /\ JtagRun)
        => /\ dap.txLen = 2 + obs.sq.sum
           /\ Len(obs.resp) = 2 + obs.sq.sum
           /\ obs.resp[1][1] = DAP_JTAG_Sequence /\ obs.resp[2][1] = 0

\* C35: whenever the FSM is in RESPOND the declared length txLen of the
\* response is at most 14, the size of the outbound frame buffer txBlock,
\* so that every byte the streamer reads lies inside txBlock; also after a
\* JTAG_Sequence with many captured bits.
C35_TxLenBound == dap.fsm = "RESPOND" => dap.txLen <= TxBlockBytes

\* ------------------------------------------------- the inbound handshake
\* C36: every byte that the handlers of Transfer, TransferBlock,
\* SWJ_Sequence and JTAG_Sequence take as part of the variable remainder of
\* a command is a byte the inbound stream transferred, taken in a cycle in
\* which valid and ready are both high: no handler advances on a payload
\* sampled while valid is low.
C36_ValidBytes == ~obs.blind

\* The commands whose frame is all there is to receive: their handlers have
\* no data phase of their own
FixedLength(op) ==
    op \notin {DAP_Transfer, DAP_TransferBlock, DAP_SWJ_Sequence,
               DAP_JTAG_Sequence}

\* The command dispatched is waiting for the engine or still has bytes of
\* its response to give
Answering ==
    \/ dap.fsm \in {"DAP_Wait_Done", "DAP_Wait_Connect_Done", "DAP_SWJ_Pins_PROCESS"}
    \/ dap.fsm = "RESPOND" /\ dap.txedLen < dap.txLen

\* C37: from the dispatch of a fixed-length command until the last byte of
\* its response was given (the engine wait states, and RESPOND while
\* txedLen < txLen) busy is set, so that streamOut.ready is low and no byte
\* of a following packet is accepted and dropped meanwhile.
C37_BusyWhileAnswering ==
    (obs.dispatched /\ FixedLength(obs.op) /\ Answering)
        => dap.busy /\ ~streamOut_ready(dap)

\* ------------------------------------------------ what an answer depends on
\* The registers as they are when the command in rxBlock is the first after
\* reset with the same session configuration: the response block holds the
\* opcode and the 0 that IDLE put there and nothing of an earlier response,
\* and rxBlock nothing past the frame
Unused(s) ==
    [s EXCEPT !.txBlock = [k \in DOMAIN @ |-> IF k <= 2 THEN @[k] ELSE 0],
              !.rxBlock = [k \in DOMAIN @ |-> IF k <= s.rxLen THEN @[k] ELSE 0]]

\* The response a handler has set up (its length and that many bytes of
\* txBlock), the state it goes to, and what it presents to the engine
Answer(n) ==
    [ len |-> n.txLen,
      bytes |-> [k \in 1..n.txLen |-> GetByte(n.txBlock, k - 1)],
      fsm |-> n.fsm, go |-> n.dbgif_go, command |-> n.dbgif_command,
      dwrite |-> n.dbgif_dwrite, countdown |-> n.dbgif_countdown,
      apndp |-> n.dbgif_apndp, rnw |-> n.dbgif_rnw, addr32 |-> n.dbgif_addr32 ]

\* The complete frame of a fixed-length command is about to be dispatched
AtDispatch ==
    /\ dap.fsm = "RxParams" /\ dap.rxedLen = dap.rxLen
    /\ FixedLength(GetByte(dap.rxBlock, 0))

\* C38: the response bytes and the engine operands of a fixed-length command
\* are a function of the bytes of its own frame, the session configuration
\* and the outputs of the engine: the handler sets up the same answer after
\* any earlier commands (valid, truncated or unknown) as it does when the
\* command is the first after reset.
C38_OwnFrameOnly ==
    AtDispatch => Answer(Dispatch(dap, Now)) = Answer(Dispatch(Unused(dap), Unused(Now)))

\* --------------------------------------------------- the two status flags
\* The handler of the command in rxBlock runs in this cycle
Dispatching(op) ==
    dap.fsm = "RxParams" /\ dap.rxedLen = dap.rxLen /\ GetByte(dap.rxBlock, 0) = op

\* The HostStatus in rxBlock names the given type; the value of its status
HostStatusOf(type) == Dispatching(DAP_HostStatus) /\ GetByte(dap.rxBlock, 1) = type

StatusIsOne == GetByte(dap.rxBlock, 2) = 1

\* C39: the flags connected and running are changed by HostStatus (type 0
\* sets connected and type 1 sets running, each to status = 1) and by
\* Disconnect (which clears both) and by nothing else: any other command,
\* an Invalid response and a truncated frame leave both as they are.
C39_StatusFlags ==
    [][ /\ dap'.connected # dap.connected
              => \/ HostStatusOf(0) \/ Dispatching(DAP_Disconnect)
        /\ dap'.running # dap.running
              => \/ HostStatusOf(1) \/ Dispatching(DAP_Disconnect)
        /\ HostStatusOf(0)
              => dap'.connected = StatusIsOne /\ dap'.running = dap.running
        /\ HostStatusOf(1)
              => dap'.running = StatusIsOne /\ dap'.connected = dap.connected
        /\ Dispatching(DAP_Disconnect)
              => ~dap'.connected /\ ~dap'.running ]_vars

\* Both flags were set by two HostStatus commands and a Connect after them
\* has left them set
C39_Witness ==
    /\ Finished /\ obs.op = DAP_Connect /\ obs.dispatched
    /\ Len(obs.hist) = 2
    /\ obs.hist[1][1] = DAP_HostStatus /\ obs.hist[2] = <<DAP_HostStatus, TRUE, TRUE>>
    /\ dap.connected /\ dap.running

\* ------------------------------------------------------ the scratch store
\* The two samples of done in the synchroniser
OlderDone(s) == s.done_cdc % 2

NewerDone(s) == s.done_cdc \div 2

\* A transfer handler takes the completion of a transaction in this cycle
TransferCompletes ==
    /\ dap.fsm \in {"DAP_Transfer_PROCESS", "DAP_TransferBlock_PROCESS"}
    /\ TakesCompletion(dap)

\* C40: tfrram.we is asserted only in the cycle in which the two samples of
\* done show a rising edge (older 0, newer 1): once per completion of an
\* engine command, and before the handler sees dbg_done = 1 and moves the
\* address cursor; the word of a completed read is stored at the cursor
\* value the read was issued with.
\* (The edge the synchroniser shows when it leaves reset with done high
\* comes before any command; the count is taken per command given to the
\* engine.)
C40_StoreWrite ==
    /\ tfrram_we(dap) => OlderDone(dap) = 0 /\ NewerDone(dap) = 1 /\ ~dbg_done(dap)
    /\ TransferCompletes
           => /\ obs.wr.n = 1
              /\ obs.wr.adr = obs.wr.at /\ dap.tfrram_adr = obs.wr.at
              /\ obs.wr.word = dbg.dread
              /\ MemRead(mem, obs.wr.at) = dbg.dread

\* The second of two reads has completed: its word went to location 1
C40_Witness ==
    /\ TransferCompletes /\ dap.dbgif_rnw = 1
    /\ obs.wr.n = 1 /\ obs.wr.at = 1 /\ dap.tfrram_adr = 1
    /\ MemRead(mem, 1) = dbg.dread

====
